---- MODULE Spec2Model ----
(***************************************************************************)
(* A model of libsignal-node's session layer: SessionCipher (encrypt,      *)
(* decryptWhisperMessage, decryptPreKeyWhisperMessage and the Double       *)
(* Ratchet steps behind them), SessionEntry / SessionRecord with their     *)
(* serialized form, and two parties A and B exchanging frames.             *)
(*                                                                         *)
(* Cryptography is symbolic.  A key pair is a number (its public and its   *)
(* private half carry the same number), a byte string is a sequence of     *)
(* integers, and HMAC, HKDF and AES are injective constructors over such   *)
(* sequences, so two derived keys are equal exactly when they were derived *)
(* the same way from the same inputs.                                      *)
(***************************************************************************)
EXTENDS Integers, Sequences, FiniteSets, TLC

VARIABLES
    now,          \* Date.now(), in milliseconds
    nextKey,      \* the next key pair curve.generateKeyPair() returns
    preKeys,      \* B's storage: one-time prekeys not yet removed
    identity,     \* storage.getOurIdentity() of each party
    store,        \* storage: the persisted document of each party's record
    cached,       \* SessionCipher._cachedRecord of each party
    lastUpdate,   \* SessionCipher._lastRecordUpdate of each party
    idCache,      \* SessionCipher._encryptionContext.ourIdentityKey
    sent,         \* every frame encrypt has returned, with its plaintext
    dstat,        \* per sent frame: "new", "ok" or "fail" at its receiver
    ordered,      \* per party: every delivery so far was unmodified and in send order
    tampers,      \* per party: number of modified frames delivered to it so far
    inits,        \* number of initOutgoing calls so far
    last,         \* the last operation and what it returned
    calls,        \* the calls made on the ciphers of one process, in order of invocation
    queues,       \* queue_job: per address, the calls whose job is queued or running
    rec,          \* a SessionRecord driven through its own methods
    faults,       \* number of calls during which storage refused or failed
    oneChain,     \* one chain of a session, driven through the chain operations
    call          \* the last call of a function that is driven on its own, and its result

vars == <<now, nextKey, preKeys, identity, store, cached, lastUpdate, idCache,
          sent, dstat, ordered, tampers, inits, last, calls, queues, rec,
          faults, oneChain, call>>

---------------------------------------------------------------------------
(* Bounds of the model *)

MaxSent == 3
MaxInits == 2
MaxTicks == 1
MaxRotations == 1
MaxTampered == 1
MaxCalls == 3
MaxFaults == 1
MaxSessions == 42
MaxClosable == 2
MaxIdle == 1
BatchSize == 20
MaxCounter == 2
\* Where the parties go through ratchet epochs, at most MaxEpochSent frames are sent
MaxEpochSent == 4
MaxFiled == 3
\* Where the engine's cache fills, calculateMAC is called for at most MaxMacCalls data
MaxMacCalls == 101
\* deriveSecrets is called with chunks in -1..MaxChunks and salts of 0..MaxSalt bytes
MaxChunks == 5
MaxSalt == 33

(* Program constants *)

VERSION == 3
MAX_MESSAGE_KEYS == 2000
CLOSED_SESSIONS_MAX == 40
CACHE_TTL == 1000
CLEANUP_INTERVAL == 300000
MAC_LENGTH == 8
\* KEY_SIZES.MAC: the length of an HMAC-SHA-256 digest
MAC == 32
\* KEY_SIZES.SALT, MESSAGE_KEYS.HKDF_CHUNKS and MAX_HKDF_CHUNKS
SALT == 32
HKDF_CHUNKS == 3
MAX_HKDF_CHUNKS == 3
\* CryptoEngine._maxCacheSize
maxCacheSize == 100
ChainType == [SENDING |-> 1, RECEIVING |-> 2]
BaseKeyType == [OURS |-> 1, THEIRS |-> 2]

(* The world of the model *)

Party == {"A", "B"}
Peer(p) == IF p = "A" THEN "B" ELSE "A"
\* Key pairs that exist before the first operation, by number; generateKeyPair
\* hands out the numbers from `fresh` on, and nobody holds the pair `bogus`.
Keys == [identityA |-> 1, identityB |-> 2, signedPreKeyB |-> 3,
         rotatedA |-> 8, rotatedB |-> 9, fresh |-> 10, bogus |-> 99]
OneTimePreKeysB == {Keys.signedPreKeyB + n : n \in 1..MaxInits}
SignedPreKeyIdB == Keys.signedPreKeyB
RegistrationId == [A |-> 11, B |-> 22]
Plaintexts == 1..MaxSent
\* The addresses one process holds ciphers for: addr.toString() is the bucket
\* of the job queue.
Address == {"x.1", "y.1"}
None == << >>
Some(x) == <<x>>

---------------------------------------------------------------------------
(* Primitives *)

\* curve.calculateAgreement: X25519 is symmetric in the two key pairs.
calculateAgreement(pubKey, privKey) ==
    IF pubKey <= privKey THEN <<pubKey, privKey>> ELSE <<privKey, pubKey>>

\* crypto.calculateMAC: HMAC-SHA-256 as an injective constructor.
calculateMAC(key, data) == key \o <<-1>> \o data

InfoCode(info) ==
    CASE info = "WhisperText" -> 101
      [] info = "WhisperRatchet" -> 102
      [] info = "WhisperMessageKeys" -> 103

\* crypto.deriveSecrets: HKDF; chunk i is determined by (salt, input, info, i).
deriveSecrets(input, salt, info, chunks) ==
    [i \in 1..chunks |-> salt \o <<-2>> \o input \o <<-3, InfoCode(info), i>>]

zeros32 == << >>

\* Buffer.slice(0, n): the first n bytes; the length travels with the value.
Slice(buf, n) == <<n>> \o buf
ByteLength(sliced) == sliced[1]

\* crypto.encrypt: AES-256-CBC.
encrypt(key, data, iv) == key \o <<-4>> \o iv \o <<-5, data>>

\* crypto.decrypt: the plaintext under the right key and iv, an error otherwise.
decrypt(key, ct, iv) ==
    LET pre == key \o <<-4>> \o iv \o <<-5>> IN
    IF Len(ct) = Len(pre) + 1 /\ SubSeq(ct, 1, Len(pre)) = pre
    THEN [err |-> "none", data |-> ct[Len(ct)]]
    ELSE [err |-> "DecryptError", data |-> 0]

\* crypto.verifyMAC
verifyMAC(data, key, mac, length) ==
    IF ByteLength(mac) # length THEN "MacLengthError"
    ELSE IF Slice(calculateMAC(key, data), length) # mac THEN "MacError"
    ELSE "none"

\* SessionCipher._encodeTupleByte / _decodeTupleByte
encodeTupleByte(number1, number2) == number1 * 16 + number2
decodeTupleByte(byte) == <<byte \div 16, byte % 16>>

\* The version check of decryptPreKeyWhisperMessage and doDecryptWhisperMessage.
versionOk(byte) ==
    LET versions == decodeTupleByte(byte) IN
    ~(versions[2] > 3 \/ versions[1] < 3)

\* protobufs.WhisperMessage.encode / decode
encodeWhisperMessage(msg) ==
    <<msg.ephemeralKey, msg.counter, msg.previousCounter>> \o msg.ciphertext
decodeWhisperMessage(buf) ==
    [ephemeralKey |-> buf[1], counter |-> buf[2], previousCounter |-> buf[3],
     ciphertext |-> SubSeq(buf, 4, Len(buf))]

---------------------------------------------------------------------------
(* SessionEntry *)

\* A function over 1..n in the normal form of a sequence, so that the
\* operators of Sequences apply to it after an EXCEPT.
Array(f) == f \o << >>

EmptyMap == [k \in {} |-> 0]
MapPut(m, k, v) == (k :> v) @@ m
MapDel(m, k) == [x \in DOMAIN m \ {k} |-> m[x]]

\* SessionEntry.hasChain; getChain returns undefined exactly when this is false.
hasChain(session, key) == key \in DOMAIN session._chains

\* SessionEntry.getChain, for a key that has a chain.
getChain(session, key) == session._chains[key]

\* SessionEntry._invalidateCache
invalidateCache(session) == [session EXCEPT !._serializedCache = None]

\* SessionEntry.addChain, for a key that has no chain yet.
addChain(session, key, value) ==
    invalidateCache([session EXCEPT !._chains = MapPut(@, key, value)])

\* deleteChain that resets the serialization cache and leaves the chain filed.
keepChain(session, key) == invalidateCache(session)

\* SessionEntry.deleteChain, for a key that has a chain.
deleteChain(session, key) ==
    invalidateCache([session EXCEPT !._chains = MapDel(@, key)])

\* A chain written back into the session it was taken from: the code mutates
\* the chain object in place, which does not touch the serialized cache.
putChain(session, key, chain) == [session EXCEPT !._chains[key] = chain]

\* Buffer.toString('base64') and Buffer.from(s, 'base64')
toBase64(buf) == [b64 |-> buf]
fromBase64(str) == str.b64

\* SessionEntry._serialize_chains
serializeChains(chains) ==
    [key \in DOMAIN chains |->
        [chainKey |-> [counter |-> chains[key].chainKey.counter,
                       key |-> IF chains[key].chainKey.key = None THEN None
                               ELSE Some(toBase64(chains[key].chainKey.key[1]))],
         chainType |-> chains[key].chainType,
         messageKeys |-> [idx \in DOMAIN chains[key].messageKeys |->
                             toBase64(chains[key].messageKeys[idx])]]]

\* SessionEntry._deserialize_chains
deserializeChains(chains_data) ==
    [key \in DOMAIN chains_data |->
        [chainKey |-> [counter |-> chains_data[key].chainKey.counter,
                       key |-> IF chains_data[key].chainKey.key = None THEN None
                               ELSE Some(fromBase64(chains_data[key].chainKey.key[1]))],
         chainType |-> chains_data[key].chainType,
         messageKeys |-> [idx \in DOMAIN chains_data[key].messageKeys |->
                             fromBase64(chains_data[key].messageKeys[idx])]]]

\* The document SessionEntry.serialize builds when it has no cached one.
serializeFresh(session) ==
    [registrationId |-> session.registrationId,
     currentRatchet |->
        [ephemeralKeyPair |->
            [pubKey |-> toBase64(session.currentRatchet.ephemeralKeyPair.pubKey),
             privKey |-> toBase64(session.currentRatchet.ephemeralKeyPair.privKey)],
         lastRemoteEphemeralKey |->
            toBase64(session.currentRatchet.lastRemoteEphemeralKey),
         previousCounter |-> session.currentRatchet.previousCounter,
         rootKey |-> toBase64(session.currentRatchet.rootKey)],
     indexInfo |->
        [baseKey |-> toBase64(session.indexInfo.baseKey),
         baseKeyType |-> session.indexInfo.baseKeyType,
         closed |-> session.indexInfo.closed,
         used |-> session.indexInfo.used,
         created |-> session.indexInfo.created,
         remoteIdentityKey |-> toBase64(session.indexInfo.remoteIdentityKey)],
     _chains |-> serializeChains(session._chains),
     pendingPreKey |->
        IF session.pendingPreKey = None THEN None
        ELSE Some([session.pendingPreKey[1] EXCEPT !.baseKey = toBase64(@)])]

\* SessionEntry.serialize: the cached document when there is one.
serializeEntry(session) ==
    IF session._serializedCache # None THEN session._serializedCache[1]
    ELSE serializeFresh(session)

\* The session after serialize(): the document it returned is now its cache.
afterSerialize(session) ==
    [session EXCEPT !._serializedCache = Some(serializeEntry(session))]

\* SessionEntry.deserialize
deserializeEntry(data) ==
    [registrationId |-> data.registrationId,
     currentRatchet |->
        [ephemeralKeyPair |->
            [pubKey |-> fromBase64(data.currentRatchet.ephemeralKeyPair.pubKey),
             privKey |-> fromBase64(data.currentRatchet.ephemeralKeyPair.privKey)],
         lastRemoteEphemeralKey |->
            fromBase64(data.currentRatchet.lastRemoteEphemeralKey),
         previousCounter |-> data.currentRatchet.previousCounter,
         rootKey |-> fromBase64(data.currentRatchet.rootKey)],
     indexInfo |->
        [baseKey |-> fromBase64(data.indexInfo.baseKey),
         baseKeyType |-> data.indexInfo.baseKeyType,
         closed |-> data.indexInfo.closed,
         used |-> data.indexInfo.used,
         created |-> data.indexInfo.created,
         remoteIdentityKey |-> fromBase64(data.indexInfo.remoteIdentityKey)],
     _chains |-> deserializeChains(data._chains),
     pendingPreKey |->
        IF data.pendingPreKey = None THEN None
        ELSE Some([data.pendingPreKey[1] EXCEPT !.baseKey = fromBase64(@)]),
     _serializedCache |-> None]

\* What a session holds apart from its serialization cache.
content(session) == [session EXCEPT !._serializedCache = None]

---------------------------------------------------------------------------
(* SessionRecord.  `sessions` keeps the insertion order of the JavaScript  *)
(* object; a session is filed under its indexInfo.baseKey.  The two caches *)
(* hold references to sessions, here the base keys of those sessions.      *)

\* new SessionRecord()
newRecord(t) ==
    [sessions |-> << >>, _openSessionCache |-> None,
     _sortedSessionsCache |-> None, _lastCleanup |-> t]

hasSession(record, baseKey) ==
    \E i \in 1..Len(record.sessions) : record.sessions[i].indexInfo.baseKey = baseKey

sessionIndex(record, baseKey) ==
    CHOOSE i \in 1..Len(record.sessions) : record.sessions[i].indexInfo.baseKey = baseKey

sessionOf(record, baseKey) == record.sessions[sessionIndex(record, baseKey)]

\* A session written back into its record after being mutated in place.
putSession(record, session) ==
    [record EXCEPT !.sessions[sessionIndex(record, session.indexInfo.baseKey)] = session]

\* SessionRecord.isClosed
isClosed(session) == session.indexInfo.closed # -1

\* SessionRecord._invalidateCaches
invalidateCaches(record) ==
    [record EXCEPT !._openSessionCache = None, !._sortedSessionsCache = None]

\* SessionRecord.getOpenSession: the base key of the session it returns
\* (None for null).  _openSessionCache = Some(0) stands for the cached `false`.
openCacheHit(record) ==
    /\ record._openSessionCache # None
    /\ record._openSessionCache[1] # 0
    /\ hasSession(record, record._openSessionCache[1])
    /\ ~isClosed(sessionOf(record, record._openSessionCache[1]))

firstOpen(record) ==
    LET open == {i \in 1..Len(record.sessions) : ~isClosed(record.sessions[i])} IN
    IF open = {} THEN None
    ELSE Some(record.sessions[CHOOSE i \in open : \A j \in open : i <= j].indexInfo.baseKey)

getOpenSession(record) ==
    IF openCacheHit(record) THEN record._openSessionCache ELSE firstOpen(record)

\* The record after getOpenSession(): the cache it leaves behind.
afterGetOpenSession(record) ==
    IF openCacheHit(record) THEN record
    ELSE [record EXCEPT !._openSessionCache =
            IF firstOpen(record) = None THEN Some(0) ELSE firstOpen(record)]

\* typeof v === 'number', for a registrationId: an unsigned integer, or -1
\* for one that is missing (undefined).
isNumber(v) == v >= 0

\* SessionRecord.haveOpenSession: the answer of the cache when there is one
\* (anything but the cached `false` counts as an open session); otherwise
\* whether getOpenSession returns a session whose registrationId is a number.
haveOpenSession(record) ==
    IF record._openSessionCache # None THEN record._openSessionCache # Some(0)
    ELSE /\ getOpenSession(record) # None
         /\ isNumber(sessionOf(record, getOpenSession(record)[1]).registrationId)

afterHaveOpenSession(record) ==
    IF record._openSessionCache # None THEN record ELSE afterGetOpenSession(record)

\* SessionRecord.getSession
getSession(record, key) ==
    IF ~hasSession(record, key) THEN [err |-> "none", found |-> FALSE]
    ELSE IF sessionOf(record, key).indexInfo.baseKeyType = BaseKeyType.OURS
    THEN [err |-> "Error", found |-> FALSE]
    ELSE [err |-> "none", found |-> TRUE]

\* SessionRecord.setSession (the batch bookkeeping only counts operations)
setSession(record, session) ==
    invalidateCaches(
        IF hasSession(record, session.indexInfo.baseKey)
        THEN putSession(record, session)
        ELSE [record EXCEPT !.sessions = Append(@, session)])

\* The stable sort of getSessions: most recently used first.
usedOf(session) == session.indexInfo.used
sortedKeys(sessions) ==
    LET n == Len(sessions)
        rank(i) == Cardinality({j \in 1..n :
                        \/ usedOf(sessions[j]) > usedOf(sessions[i])
                        \/ usedOf(sessions[j]) = usedOf(sessions[i]) /\ j < i}) + 1
    IN Array([r \in 1..n |-> sessions[CHOOSE i \in 1..n : rank(i) = r].indexInfo.baseKey])

\* SessionRecord.getSessions: the base keys of the sessions in the order returned.
getSessions(record) ==
    IF record._sortedSessionsCache # None THEN record._sortedSessionsCache[1]
    ELSE sortedKeys(record.sessions)

afterGetSessions(record) ==
    [record EXCEPT !._sortedSessionsCache = Some(getSessions(record))]

\* `order`, base keys of sessions of the record, runs from the most recently
\* used session to the least recently used one.
mostRecentFirst(record, order) ==
    \A i, j \in 1..Len(order) :
        i < j => usedOf(sessionOf(record, order[i])) >= usedOf(sessionOf(record, order[j]))

\* SessionRecord.closeSession
closeSession(record, baseKey, t) ==
    IF isClosed(sessionOf(record, baseKey)) THEN record
    ELSE invalidateCaches(
            [record EXCEPT !.sessions[sessionIndex(record, baseKey)].indexInfo.closed = t])

\* SessionRecord.openSession
openSession(record, baseKey) ==
    IF ~isClosed(sessionOf(record, baseKey)) THEN record
    ELSE invalidateCaches(
            [record EXCEPT !.sessions[sessionIndex(record, baseKey)].indexInfo.closed = -1])

\* SessionRecord.deleteAllSessions
deleteAllSessions(record) == invalidateCaches([record EXCEPT !.sessions = << >>])

\* SessionRecord.setSessionsBatch: each session is filed under its base key,
\* the caches are invalidated once at the end.
RECURSIVE setSessionsBatch(_, _)
setSessionsBatch(record, sessions) ==
    IF sessions = << >> THEN invalidateCaches(record)
    ELSE setSessionsBatch(
            IF hasSession(record, Head(sessions).indexInfo.baseKey)
            THEN putSession(record, Head(sessions))
            ELSE [record EXCEPT !.sessions = Append(@, Head(sessions))],
            Tail(sessions))

\* SessionRecord.closeSessionsBatch, for the sessions filed under `keys`.
closeSessionsBatch(record, keys, t) ==
    LET open == {i \in 1..Len(record.sessions) :
                    /\ record.sessions[i].indexInfo.baseKey \in keys
                    /\ ~isClosed(record.sessions[i])}
    IN IF open = {} THEN record
       ELSE invalidateCaches(
                [record EXCEPT !.sessions =
                    Array([i \in 1..Len(@) |->
                            IF i \in open THEN [@[i] EXCEPT !.indexInfo.closed = t]
                            ELSE @[i]])])

\* A loop that deletes the closed session closed last instead.
RECURSIVE removeNewestLoop(_, _)
removeNewestLoop(sessions, removedCount) ==
    LET closedIdx == {i \in 1..Len(sessions) : sessions[i].indexInfo.closed # -1} IN
    IF Len(sessions) - removedCount <= CLOSED_SESSIONS_MAX \/ closedIdx = {}
    THEN sessions
    ELSE LET newest == CHOOSE i \in closedIdx : \A j \in closedIdx :
                          \/ sessions[i].indexInfo.closed > sessions[j].indexInfo.closed
                          \/ sessions[i].indexInfo.closed = sessions[j].indexInfo.closed /\ i <= j
         IN removeNewestLoop(Array([k \in 1..(Len(sessions) - 1) |->
                                        IF k < newest THEN sessions[k] ELSE sessions[k + 1]]),
                             removedCount + 1)

\* SessionRecord.removeOldSessions: the loop that deletes the oldest closed
\* session; `sessions` are the entries left, removedCount the number deleted.
RECURSIVE removeLoop(_, _)
removeLoop(sessions, removedCount) ==
    LET closedIdx == {i \in 1..Len(sessions) : sessions[i].indexInfo.closed # -1} IN
    IF Len(sessions) - removedCount <= CLOSED_SESSIONS_MAX \/ closedIdx = {}
    THEN sessions
    ELSE LET oldest == CHOOSE i \in closedIdx : \A j \in closedIdx :
                          \/ sessions[i].indexInfo.closed < sessions[j].indexInfo.closed
                          \/ sessions[i].indexInfo.closed = sessions[j].indexInfo.closed /\ i <= j
         IN removeLoop(Array([k \in 1..(Len(sessions) - 1) |->
                                  IF k < oldest THEN sessions[k] ELSE sessions[k + 1]]),
                       removedCount + 1)

removeOldSessions(record, t) ==
    IF t - record._lastCleanup < CLEANUP_INTERVAL THEN record
    ELSE LET kept == removeLoop(record.sessions, 0) IN
         IF Len(kept) = Len(record.sessions) THEN record
         ELSE [invalidateCaches(record) EXCEPT !.sessions = kept, !._lastCleanup = t]

\* SessionRecord.serialize
serializeRecord(record) ==
    [version |-> "v1",
     _sessions |-> Array([i \in 1..Len(record.sessions) |->
                            serializeEntry(record.sessions[i])])]

\* The record after serialize(): every session now caches its document.
afterSerializeRecord(record) ==
    [record EXCEPT !.sessions = Array([i \in 1..Len(@) |-> afterSerialize(@[i])])]

\* SessionRecord.deserialize
deserializeRecord(data, t) ==
    [newRecord(t) EXCEPT !.sessions =
        Array([i \in 1..Len(data._sessions) |-> deserializeEntry(data._sessions[i])])]

\* What a record holds (None when there is no record): its sessions in
\* order, apart from the caches.
recordContent(held) ==
    IF held = None THEN << >>
    ELSE Array([i \in 1..Len(held[1].sessions) |-> content(held[1].sessions[i])])

\* The session under baseKey holds the same in both records.
sameSession(before, after, baseKey) ==
    /\ before # None /\ after # None
    /\ hasSession(before[1], baseKey) /\ hasSession(after[1], baseKey)
    /\ content(sessionOf(before[1], baseKey)) = content(sessionOf(after[1], baseKey))

---------------------------------------------------------------------------
(* Storage: storeSession persists the serialized form of the record it is  *)
(* given, loadSession builds a record from the persisted document.         *)

storeSession(record) == Some(serializeRecord(record))
loadSession(doc, t) == IF doc = None THEN None ELSE Some(deserializeRecord(doc[1], t))

---------------------------------------------------------------------------
(* SessionCipher: the ratchet.  An operation that can throw returns the    *)
(* state it has mutated up to the throw together with `err`.               *)

\* The chain step of the first fillMessageKeys of the class, which is not in
\* force: the message key is the HKDF output of the chain key, the next
\* chain key HMAC(key, 1).
chainStepFirst(chain) ==
    LET key == chain.chainKey.key[1] IN
    [chain EXCEPT
        !.messageKeys = MapPut(@, chain.chainKey.counter + 1,
                               deriveSecrets(key, zeros32, "WhisperMessageKeys", 3)),
        !.chainKey.key = Some(calculateMAC(key, <<1>>)),
        !.chainKey.counter = @ + 1]

\* The chain step of fillMessageKeys (the definition in force, the second of
\* the class): message key seed HMAC(key, 1), next chain key HMAC(key, 2).
chainStep(chain) ==
    LET key == chain.chainKey.key[1] IN
    [chain EXCEPT
        !.messageKeys = MapPut(@, chain.chainKey.counter + 1, calculateMAC(key, <<1>>)),
        !.chainKey.key = Some(calculateMAC(key, <<2>>)),
        !.chainKey.counter = @ + 1]

\* The first fillMessageKeys of the class, which the second replaces: it
\* refuses a chain that holds 2000 message keys, fails with Error, leaves a
\* chain without chain key alone, and derives every message key and the
\* chain key from the chain key it started with.
fillMessageKeysFirst(chain, counter) ==
    IF Cardinality(DOMAIN chain.messageKeys) >= MAX_MESSAGE_KEYS
    THEN [chain |-> chain, err |-> "Error"]
    ELSE IF chain.chainKey.counter >= counter THEN [chain |-> chain, err |-> "none"]
    ELSE IF counter - chain.chainKey.counter > MAX_MESSAGE_KEYS
    THEN [chain |-> chain, err |-> "Error"]
    ELSE IF chain.chainKey.key = None THEN [chain |-> chain, err |-> "none"]
    ELSE [chain |->
            [chain EXCEPT
                !.messageKeys =
                    [idx \in DOMAIN @ \cup (chain.chainKey.counter + 1)..counter |->
                        IF idx > chain.chainKey.counter
                        THEN deriveSecrets(chain.chainKey.key[1], zeros32,
                                           "WhisperMessageKeys", 3)
                        ELSE @[idx]],
                !.chainKey.key = Some(calculateMAC(chain.chainKey.key[1], <<1>>)),
                !.chainKey.counter = counter],
          err |-> "none"]

\* SessionCipher.fillMessageKeys.  The code takes one chain step and calls
\* itself with the same `counter`; here the call that has more than one
\* step to go first fills half of the way, which passes the same checks, so
\* that the evaluation stays shallow.
RECURSIVE fillMessageKeys(_, _)
fillMessageKeys(chain, counter) ==
    IF chain.chainKey.counter >= counter THEN [chain |-> chain, err |-> "none"]
    ELSE IF counter - chain.chainKey.counter > MAX_MESSAGE_KEYS
    THEN [chain |-> chain, err |-> "SessionError"]
    ELSE IF chain.chainKey.key = None
    THEN [chain |-> chain, err |-> "SessionError"]
    ELSE IF counter - chain.chainKey.counter = 1
    THEN [chain |-> chainStep(chain), err |-> "none"]
    ELSE fillMessageKeys(
            fillMessageKeys(chain, chain.chainKey.counter
                                      + (counter - chain.chainKey.counter) \div 2).chain,
            counter)

\* SessionCipher.calculateRatchet
calculateRatchet(session, remoteKey, sending) ==
    LET ratchet == session.currentRatchet
        sharedSecret == calculateAgreement(remoteKey, ratchet.ephemeralKeyPair.privKey)
        masterKey == deriveSecrets(sharedSecret, ratchet.rootKey, "WhisperRatchet", 2)
        chainKey == IF sending THEN ratchet.ephemeralKeyPair.pubKey ELSE remoteKey
        added == addChain(session, chainKey,
                    [messageKeys |-> EmptyMap,
                     chainKey |-> [counter |-> -1, key |-> Some(masterKey[2])],
                     chainType |-> IF sending THEN ChainType.SENDING
                                   ELSE ChainType.RECEIVING])
    IN [added EXCEPT !.currentRatchet.rootKey = masterKey[1]]

\* maybeStepRatchet once the prior receiving chain is closed and the new
\* receiving chain is added (s1): the previous counter is taken from our
\* sending chain, which is deleted, our ephemeral key is replaced and the new
\* sending chain is added.  stepRatchet starts with the new receiving chain.
\* swapKeepingRemote is the swap without the last assignment of
\* maybeStepRatchet: lastRemoteEphemeralKey stays what it was.
swapKeepingRemote(s1, remoteKey, newKey) ==
    LET ours == s1.currentRatchet.ephemeralKeyPair.pubKey
        s2 == IF hasChain(s1, ours)
              THEN deleteChain([s1 EXCEPT !.currentRatchet.previousCounter =
                                    getChain(s1, ours).chainKey.counter], ours)
              ELSE s1
        s3 == [s2 EXCEPT !.currentRatchet.ephemeralKeyPair =
                            [pubKey |-> newKey, privKey |-> newKey]]
    IN calculateRatchet(s3, remoteKey, TRUE)

swapRatchetKey(s1, remoteKey, newKey) ==
    LET ours == s1.currentRatchet.ephemeralKeyPair.pubKey
        s2 == IF hasChain(s1, ours)
              THEN deleteChain([s1 EXCEPT !.currentRatchet.previousCounter =
                                    getChain(s1, ours).chainKey.counter], ours)
              ELSE s1
        s3 == [s2 EXCEPT !.currentRatchet.ephemeralKeyPair =
                            [pubKey |-> newKey, privKey |-> newKey]]
        s4 == calculateRatchet(s3, remoteKey, TRUE)
    IN [s4 EXCEPT !.currentRatchet.lastRemoteEphemeralKey = remoteKey]

stepRatchet(session, remoteKey, newKey) ==
    swapRatchetKey(calculateRatchet(session, remoteKey, FALSE), remoteKey, newKey)

\* A ratchet step that closes the prior receiving chain as it is, without
\* filling it up to previousCounter first.
stepClosingUnfilled(session, remoteKey, previousCounter, newKey) ==
    IF hasChain(session, remoteKey)
    THEN [session |-> session, err |-> "none", stepped |-> FALSE]
    ELSE LET lastKey == session.currentRatchet.lastRemoteEphemeralKey IN
         IF hasChain(session, lastKey)
         THEN [session |-> stepRatchet(
                              putChain(session, lastKey,
                                  [getChain(session, lastKey) EXCEPT !.chainKey.key = None]),
                              remoteKey, newKey),
               err |-> "none", stepped |-> TRUE]
         ELSE [session |-> stepRatchet(session, remoteKey, newKey),
               err |-> "none", stepped |-> TRUE]

\* maybeStepRatchet that fills the prior receiving chain and leaves it its
\* chain key.
stepKeepingPrior(session, remoteKey, previousCounter, newKey) ==
    IF hasChain(session, remoteKey)
    THEN [session |-> session, err |-> "none", stepped |-> FALSE]
    ELSE LET lastKey == session.currentRatchet.lastRemoteEphemeralKey IN
         IF hasChain(session, lastKey)
         THEN LET filled == fillMessageKeys(getChain(session, lastKey), previousCounter) IN
              IF filled.err # "none"
              THEN [session |-> session, err |-> filled.err, stepped |-> FALSE]
              ELSE [session |-> stepRatchet(putChain(session, lastKey, filled.chain),
                                            remoteKey, newKey),
                    err |-> "none", stepped |-> TRUE]
         ELSE [session |-> stepRatchet(session, remoteKey, newKey),
               err |-> "none", stepped |-> TRUE]

\* SessionCipher.maybeStepRatchet.  `stepped` tells that generateKeyPair ran.
maybeStepRatchet(session, remoteKey, previousCounter, newKey) ==
    IF hasChain(session, remoteKey)
    THEN [session |-> session, err |-> "none", stepped |-> FALSE]
    ELSE LET lastKey == session.currentRatchet.lastRemoteEphemeralKey IN
         IF hasChain(session, lastKey)
         THEN LET filled == fillMessageKeys(getChain(session, lastKey), previousCounter) IN
              IF filled.err # "none"
              THEN [session |-> session, err |-> filled.err, stepped |-> FALSE]
              ELSE [session |-> stepRatchet(
                                   putChain(session, lastKey,
                                       [filled.chain EXCEPT !.chainKey.key = None]),
                                   remoteKey, newKey),
                    err |-> "none", stepped |-> TRUE]
         ELSE [session |-> stepRatchet(session, remoteKey, newKey),
               err |-> "none", stepped |-> TRUE]

\* A MAC input without the identity keys.
macInputNoIdentities(firstIdentity, secondIdentity, versionByte, messageProto) ==
    <<versionByte>> \o messageProto

\* The MAC input of a WhisperMessage frame: the two identity keys, the
\* version byte, the encoded message.
macInputOf(firstIdentity, secondIdentity, versionByte, messageProto) ==
    <<firstIdentity, secondIdentity, versionByte>> \o messageProto

\* The version byte doDecryptWhisperMessage puts into the MAC input.
decryptMacVersion(messageBuffer) == encodeTupleByte(VERSION, VERSION)

\* doDecryptWhisperMessage from the message key on: the key is taken out of
\* the chain, then the MAC is verified, then the ciphertext is decrypted.
openMessage(session, messageBuffer, message, ourIdentity, stepped) ==
    LET chain == getChain(session, message.ephemeralKey)
        messageKey == chain.messageKeys[message.counter]
        taken == putChain(session, message.ephemeralKey,
                     [chain EXCEPT !.messageKeys = MapDel(@, message.counter)])
        keys == deriveSecrets(messageKey, zeros32, "WhisperMessageKeys", 3)
        macInput == macInputOf(session.indexInfo.remoteIdentityKey, ourIdentity,
                               decryptMacVersion(messageBuffer), messageBuffer.messageProto)
        macErr == verifyMAC(macInput, keys[2], messageBuffer.mac, MAC_LENGTH)
        plain == decrypt(keys[1], message.ciphertext, Slice(keys[3], 16))
    IN  IF macErr # "none"
        THEN [session |-> taken, err |-> macErr, plaintext |-> 0, stepped |-> stepped]
        ELSE IF plain.err # "none"
        THEN [session |-> taken, err |-> plain.err, plaintext |-> 0, stepped |-> stepped]
        ELSE [session |-> [taken EXCEPT !.pendingPreKey = None],
              err |-> "none", plaintext |-> plain.data, stepped |-> stepped]

\* doDecryptWhisperMessage once fillMessageKeys has run on the chain of the
\* message: `filled` is what it returned, s1 the session after maybeStepRatchet.
decryptFilled(messageBuffer, message, s1, stepped, filled, ourIdentity) ==
    LET s2 == putChain(s1, message.ephemeralKey, filled.chain) IN
    IF filled.err # "none"
    THEN [session |-> s2, err |-> filled.err, plaintext |-> 0, stepped |-> stepped]
    ELSE IF message.counter \notin DOMAIN filled.chain.messageKeys
    THEN [session |-> s2, err |-> "MessageCounterError", plaintext |-> 0,
          stepped |-> stepped]
    ELSE openMessage(s2, messageBuffer, message, ourIdentity, stepped)

\* doDecryptWhisperMessage once maybeStepRatchet has run: `step` is what it
\* returned.
decryptStepped(messageBuffer, message, step, ourIdentity) ==
    IF step.err # "none"
    THEN [session |-> step.session, err |-> step.err, plaintext |-> 0, stepped |-> FALSE]
    ELSE IF getChain(step.session, message.ephemeralKey).chainType = ChainType.SENDING
    THEN [session |-> step.session, err |-> "Error", plaintext |-> 0,
          stepped |-> step.stepped]
    ELSE decryptFilled(messageBuffer, message, step.session, step.stepped,
                       fillMessageKeys(getChain(step.session, message.ephemeralKey),
                                       message.counter),
                       ourIdentity)

\* SessionCipher.doDecryptWhisperMessage
doDecryptWhisperMessage(messageBuffer, session, ourIdentity, newKey) ==
    IF ~versionOk(messageBuffer.version)
    THEN [session |-> session, err |-> "VersionError", plaintext |-> 0, stepped |-> FALSE]
    ELSE LET message == decodeWhisperMessage(messageBuffer.messageProto) IN
         decryptStepped(messageBuffer, message,
                        maybeStepRatchet(session, message.ephemeralKey,
                                         message.previousCounter, newKey),
                        ourIdentity)

\* SessionCipher.decryptWithSessions over sessions[from..]: each session is
\* tried in turn and keeps whatever its attempt did to it; the first success
\* wins and is marked used.  `failed` lists the sessions that failed, each
\* with the error of its attempt (the errs array of the code).  sessionTried
\* is the loop body once doDecryptWhisperMessage has returned `try`.
RECURSIVE decryptWithSessions(_, _, _, _, _, _, _, _)
RECURSIVE sessionTried(_, _, _, _, _, _, _, _, _)
sessionTried(data, record, order, from, ourIdentity, newKey, t, failed, try) ==
    LET key2 == IF try.stepped THEN newKey + 1 ELSE newKey IN
    IF try.err = "none"
    THEN [record |-> putSession(record, [try.session EXCEPT !.indexInfo.used = t]),
          err |-> "none", plaintext |-> try.plaintext, nextKey |-> key2,
          session |-> order[from], failed |-> failed]
    ELSE decryptWithSessions(data, putSession(record, try.session), order,
                             from + 1, ourIdentity, key2, t,
                             Append(failed, [baseKey |-> order[from], err |-> try.err]))

decryptWithSessions(data, record, order, from, ourIdentity, newKey, t, failed) ==
    IF from > Len(order)
    THEN [record |-> record, err |-> "SessionError", plaintext |-> 0,
          nextKey |-> newKey, session |-> 0, failed |-> failed]
    ELSE sessionTried(data, record, order, from, ourIdentity, newKey, t, failed,
                      doDecryptWhisperMessage(data, sessionOf(record, order[from]),
                                              ourIdentity, newKey))

---------------------------------------------------------------------------
(* SessionBuilder *)

\* The X3DH master secret, in the order of the sender: 0xFF x 32, then
\* DH(identity, signed prekey), DH(base, identity), DH(base, signed prekey)
\* and, with a one-time prekey, DH(base, one-time prekey).
masterSecret(a, b, c, d) == <<255>> \o a \o b \o c \o d

\* SessionBuilder.initOutgoing, steps 2 to 7: the session of the sender.  The
\* key pair generated for the session is its base key and its first sending
\* ratchet key: the receiver files its first receiving chain under the base key.
outgoingSession(ourIdentity, bundle, baseKey, t) ==
    LET a == calculateAgreement(bundle.signedPreKey, ourIdentity)
        b == calculateAgreement(bundle.identityKey, baseKey)
        c == calculateAgreement(bundle.signedPreKey, baseKey)
        d == IF bundle.preKey = None THEN << >>
             ELSE calculateAgreement(bundle.preKey[1], baseKey)
        derived == deriveSecrets(masterSecret(a, b, c, d), zeros32, "WhisperText", 2)
    IN  [registrationId |-> bundle.registrationId,
         currentRatchet |->
            [ephemeralKeyPair |-> [pubKey |-> baseKey, privKey |-> baseKey],
             lastRemoteEphemeralKey |-> bundle.signedPreKey,
             previousCounter |-> 0,
             rootKey |-> derived[1]],
         indexInfo |->
            [baseKey |-> baseKey, baseKeyType |-> BaseKeyType.OURS, closed |-> -1,
             used |-> t, created |-> t, remoteIdentityKey |-> bundle.identityKey],
         _chains |-> MapPut(EmptyMap, baseKey,
                        [messageKeys |-> EmptyMap,
                         chainKey |-> [counter |-> -1, key |-> Some(derived[2])],
                         chainType |-> ChainType.SENDING]),
         pendingPreKey |-> Some([baseKey |-> baseKey,
                                 signedKeyId |-> bundle.signedPreKeyId,
                                 preKeyId |-> bundle.preKey]),
         _serializedCache |-> None]

\* The record initOutgoing stores: the open session, if any, is closed and
\* the new session is filed.
initOutgoing(record, session, t) ==
    LET open == getOpenSession(record)
        r1 == afterGetOpenSession(record)
        r2 == IF open = None THEN r1 ELSE closeSession(r1, open[1], t)
    IN setSession(r2, session)

\* SessionBuilder.initIncoming, steps 3 to 6: the session of the receiver,
\* with a receiving chain under the sender's base key and a sending chain
\* from a DH ratchet step with a freshly generated ephemeral key pair.
incomingSession(ourIdentity, ourSignedPreKey, ourPreKey, message, newKey, t) ==
    LET a == calculateAgreement(message.identityKey, ourSignedPreKey)
        b == calculateAgreement(message.baseKey, ourIdentity)
        c == calculateAgreement(message.baseKey, ourSignedPreKey)
        d == IF ourPreKey = None THEN << >>
             ELSE calculateAgreement(message.baseKey, ourPreKey[1])
        derived == deriveSecrets(masterSecret(a, b, c, d), zeros32, "WhisperText", 2)
        receiving ==
            [registrationId |-> message.registrationId,
             currentRatchet |->
                [ephemeralKeyPair |-> [pubKey |-> newKey, privKey |-> newKey],
                 lastRemoteEphemeralKey |-> message.baseKey,
                 previousCounter |-> 0,
                 rootKey |-> derived[1]],
             indexInfo |->
                [baseKey |-> message.baseKey, baseKeyType |-> BaseKeyType.THEIRS,
                 closed |-> -1, used |-> t, created |-> t,
                 remoteIdentityKey |-> message.identityKey],
             _chains |-> MapPut(EmptyMap, message.baseKey,
                            [messageKeys |-> EmptyMap,
                             chainKey |-> [counter |-> -1, key |-> Some(derived[2])],
                             chainType |-> ChainType.RECEIVING]),
             pendingPreKey |-> None,
             _serializedCache |-> None]
    IN calculateRatchet(receiving, message.baseKey, TRUE)

\* SessionBuilder.initIncoming.  `preKeyId` is what it returns to the caller.
initIncoming(record, message, ourIdentity, storedPreKeys, newKey, t) ==
    LET known == getSession(record, message.baseKey) IN
    IF known.err # "none"
    THEN [record |-> record, err |-> known.err, preKeyId |-> None, built |-> FALSE]
    ELSE IF known.found
    THEN [record |-> record, err |-> "none", preKeyId |-> None, built |-> FALSE]
    ELSE IF message.signedPreKeyId # SignedPreKeyIdB
    THEN [record |-> record, err |-> "InvalidKeyIdError", preKeyId |-> None, built |-> FALSE]
    ELSE IF message.preKeyId # None /\ message.preKeyId[1] \notin storedPreKeys
    THEN [record |-> record, err |-> "InvalidKeyIdError", preKeyId |-> None, built |-> FALSE]
    ELSE LET open == getOpenSession(record)
             r1 == afterGetOpenSession(record)
             r2 == IF open = None THEN r1 ELSE closeSession(r1, open[1], t)
             session == incomingSession(ourIdentity, Keys.signedPreKeyB,
                                        message.preKeyId, message, newKey, t)
         IN [record |-> setSession(r2, session), err |-> "none",
             preKeyId |-> message.preKeyId, built |-> TRUE]

---------------------------------------------------------------------------
(* SessionCipher: the jobs *)

\* SessionCipher.getRecord: the cached record while it is younger than a
\* second, the record loaded from storage otherwise.
cacheFresh(p) == cached[p] # None /\ now - lastUpdate[p] < CACHE_TTL
getRecord(p) == IF cacheFresh(p) THEN cached[p] ELSE loadSession(store[p], now)
lastUpdateAfterGet(p) == IF cacheFresh(p) THEN lastUpdate[p] ELSE now

\* SessionCipher.storeRecord: what reaches storage, and the record the
\* cipher keeps.
recordToStore(record) == removeOldSessions(record, now)
storedDocument(record) == storeSession(recordToStore(record))
recordAfterStore(record) == Some(afterSerializeRecord(recordToStore(record)))

\* The WhisperMessage frame of encrypt: version byte, encoded message, and
\* the first 8 bytes of the MAC over both identity keys, the version byte
\* and the encoded message.
whisperFrame(session, chain, messageKey, data, ourIdentity) ==
    LET keys == deriveSecrets(messageKey, zeros32, "WhisperMessageKeys", 3)
        msgBuf == encodeWhisperMessage(
                    [ephemeralKey |-> session.currentRatchet.ephemeralKeyPair.pubKey,
                     counter |-> chain.chainKey.counter,
                     previousCounter |-> session.currentRatchet.previousCounter,
                     ciphertext |-> encrypt(keys[1], data, Slice(keys[3], 16))])
        macInput == macInputOf(ourIdentity, session.indexInfo.remoteIdentityKey,
                               encodeTupleByte(VERSION, VERSION), msgBuf)
        mac == calculateMAC(keys[2], macInput)
    IN [version |-> encodeTupleByte(VERSION, VERSION), messageProto |-> msgBuf,
        mac |-> Slice(mac, MAC_LENGTH)]

\* An envelope that is never there: every frame is of type 1.
noEnvelope(p, session, ourIdentity) == None

\* The PreKeyWhisperMessage fields around the inner frame (None for type 1).
\* The preKeyId is copied when it is truthy: an id of 0 counts as no id, and
\* the prekey ids of the model are not 0.
preKeyEnvelope(p, session, ourIdentity) ==
    IF session.pendingPreKey = None THEN None
    ELSE Some([version |-> encodeTupleByte(VERSION, VERSION),
               identityKey |-> ourIdentity,
               registrationId |-> RegistrationId[p],
               baseKey |-> session.pendingPreKey[1].baseKey,
               signedPreKeyId |-> session.pendingPreKey[1].signedKeyId,
               preKeyId |-> IF session.pendingPreKey[1].preKeyId \in {None, Some(0)}
                            THEN None
                            ELSE session.pendingPreKey[1].preKeyId])

\* The job of SessionCipher.encrypt once fillMessageKeys has advanced the
\* sending chain: the message key is taken out of the chain and the frame
\* is built.
encryptFilled(p, data, ourIdentity, r1, session, filled) ==
    IF filled.err # "none"
    THEN [err |-> filled.err, record |-> Some(r1), stored |-> FALSE, frame |-> None]
    ELSE
    LET ours == session.currentRatchet.ephemeralKeyPair.pubKey
        counter == filled.chain.chainKey.counter
        messageKey == filled.chain.messageKeys[counter]
        taken == [filled.chain EXCEPT !.messageKeys = MapDel(@, counter)]
        s2 == putChain(session, ours, taken)
    IN [err |-> "none", record |-> Some(putSession(r1, s2)), stored |-> TRUE,
        frame |-> Some([from |-> p,
                        inner |-> whisperFrame(s2, taken, messageKey, data, ourIdentity),
                        outer |-> preKeyEnvelope(p, s2, ourIdentity),
                        pt |-> data,
                        ids |-> [ours |-> ourIdentity,
                                 theirs |-> s2.indexInfo.remoteIdentityKey]])]

\* The job of SessionCipher.encrypt with the open session of the record.
encryptWith(p, data, ourIdentity, r1, session) ==
    LET ours == session.currentRatchet.ephemeralKeyPair.pubKey IN
    IF ~hasChain(session, ours)
    THEN [err |-> "TypeError", record |-> Some(r1), stored |-> FALSE, frame |-> None]
    ELSE IF getChain(session, ours).chainType = ChainType.RECEIVING
    THEN [err |-> "Error", record |-> Some(r1), stored |-> FALSE, frame |-> None]
    ELSE encryptFilled(p, data, ourIdentity, r1, session,
                       fillMessageKeys(getChain(session, ours),
                                       getChain(session, ours).chainKey.counter + 1))

\* What storage does during one call of the cipher: it answers every
\* request ("none"), or isTrustedIdentity answers false ("untrusted"), or
\* the named request is rejected.
Faults == {"none", "untrusted", "getOurRegistrationId", "removePreKey"}

\* encrypt without its trust check: the answer of isTrustedIdentity is ignored.
encryptUnchecked(p, data, ourIdentity, r1, session, fault) ==
    encryptWith(p, data, ourIdentity, r1, session)

\* The job of SessionCipher.encrypt from the isTrustedIdentity check on.
encryptTrusted(p, data, ourIdentity, r1, session, fault) ==
    IF fault = "untrusted"
    THEN [err |-> "UntrustedIdentityKeyError", record |-> Some(r1), stored |-> FALSE,
          frame |-> None]
    ELSE encryptWith(p, data, ourIdentity, r1, session)

\* The job of SessionCipher.encrypt once getOpenSession has returned `open`
\* and left the record r1.
encryptOpen(p, data, ourIdentity, r1, open, fault) ==
    IF open = None
    THEN [err |-> "SessionError", record |-> Some(r1), stored |-> FALSE, frame |-> None]
    ELSE encryptTrusted(p, data, ourIdentity, r1, sessionOf(r1, open[1]), fault)

\* The end of the job of SessionCipher.encrypt: after storeRecord, the
\* envelope of a type 3 frame asks storage for the registration id.
encryptReturned(res, fault) ==
    IF res.err = "none" /\ res.frame[1].outer # None /\ fault = "getOurRegistrationId"
    THEN [res EXCEPT !.err = "StorageError", !.frame = None]
    ELSE res

\* The job of SessionCipher.encrypt.
encryptJob(p, data, ourIdentity, fault) ==
    LET loaded == getRecord(p) IN
    IF loaded = None
    THEN [err |-> "SessionError", record |-> None, stored |-> FALSE, frame |-> None]
    ELSE encryptReturned(encryptOpen(p, data, ourIdentity,
                                     afterGetOpenSession(loaded[1]),
                                     getOpenSession(loaded[1]), fault),
                         fault)

\* What decryptWhisperMessage returns and leaves behind once
\* decryptWithSessions has returned `res` for the record r1.
whisperJobResult(r1, res, fault) ==
    LET tried == {res.failed[n].baseKey : n \in 1..Len(res.failed)}
                    \cup (IF res.err = "none" THEN {res.session} ELSE {})
        untrusted == res.err = "none" /\ fault = "untrusted"
    IN [err |-> IF untrusted THEN "UntrustedIdentityKeyError" ELSE res.err,
        record |-> Some(res.record), stored |-> res.err = "none" /\ ~untrusted,
        plaintext |-> IF untrusted THEN 0 ELSE res.plaintext, nextKey |-> res.nextKey,
        failed |-> res.failed, removed |-> None, built |-> FALSE,
        remotes |-> {sessionOf(r1, k).indexInfo.remoteIdentityKey : k \in tried},
        session |-> res.session]

\* The job of SessionCipher.decryptWhisperMessage.
decryptWhisperJob(p, data, fault) ==
    LET loaded == getRecord(p) IN
    IF loaded = None
    THEN [err |-> "SessionError", record |-> None, stored |-> FALSE, plaintext |-> 0,
          nextKey |-> nextKey, failed |-> << >>, removed |-> None, built |-> FALSE,
          remotes |-> {}, session |-> 0]
    ELSE whisperJobResult(afterGetSessions(loaded[1]),
                          decryptWithSessions(data, afterGetSessions(loaded[1]),
                                              getSessions(loaded[1]), 1, identity[p],
                                              nextKey, now, << >>),
                          fault)

\* The job of SessionCipher.decryptPreKeyWhisperMessage, for a frame that
\* passed the version check made before the job is queued.  `isNew` tells
\* that the job created the record itself.  When the job fails on such a
\* record, the record and the key pairs generated for it are dropped: the
\* cipher holds no record and the next key pair is as fresh as before.
\* preKeyJobTried is the job once doDecryptWhisperMessage has returned `try`,
\* preKeyJobBuilt the job once initIncoming has returned `init`.  `removed`
\* is the id removePreKey was called with: the job calls it when the id
\* initIncoming returned is truthy, which the id 0 is not.
preKeyJobTried(outer, isNew, init, key1, try, fault) ==
    LET r2 == putSession(init.record, try.session)
        remotes == {try.session.indexInfo.remoteIdentityKey}
        key2 == IF try.stepped THEN key1 + 1 ELSE key1
    IN  IF try.err # "none"
        THEN [err |-> try.err, record |-> IF isNew THEN None ELSE Some(r2),
              stored |-> FALSE, plaintext |-> 0,
              nextKey |-> IF isNew THEN nextKey ELSE key2,
              failed |-> <<[baseKey |-> outer.baseKey, err |-> try.err]>>,
              removed |-> None, built |-> init.built, remotes |-> remotes,
              session |-> 0]
        ELSE IF init.preKeyId \notin {None, Some(0)} /\ fault = "removePreKey"
        THEN [err |-> "StorageError", record |-> Some(r2), stored |-> TRUE,
              plaintext |-> 0, nextKey |-> key2,
              failed |-> << >>, removed |-> None, built |-> init.built,
              remotes |-> remotes, session |-> outer.baseKey]
        ELSE [err |-> "none", record |-> Some(r2), stored |-> TRUE,
              plaintext |-> try.plaintext, nextKey |-> key2,
              failed |-> << >>,
              removed |-> IF init.preKeyId \in {None, Some(0)} THEN None
                          ELSE init.preKeyId,
              built |-> init.built,
              remotes |-> remotes, session |-> outer.baseKey]

preKeyJobBuilt(p, outer, inner, isNew, init, fault) ==
    LET key1 == IF init.built THEN nextKey + 1 ELSE nextKey IN
    IF init.err # "none"
    THEN [err |-> init.err, record |-> IF isNew THEN None ELSE Some(init.record),
          stored |-> FALSE, plaintext |-> 0,
          nextKey |-> IF isNew THEN nextKey ELSE key1, failed |-> << >>,
          removed |-> None, built |-> init.built, remotes |-> {}, session |-> 0]
    ELSE preKeyJobTried(outer, isNew, init, key1,
                        doDecryptWhisperMessage(inner,
                            sessionOf(init.record, outer.baseKey), identity[p], key1),
                        fault)

decryptPreKeyJob(p, outer, inner, fault) ==
    LET loaded == getRecord(p)
        record == IF loaded = None THEN newRecord(now) ELSE loaded[1]
    IN preKeyJobBuilt(p, outer, inner, loaded = None,
                      initIncoming(record, outer, identity[p], preKeys, nextKey, now),
                      fault)

\* The job of SessionCipher.closeOpenSession once getOpenSession has
\* returned `open` and left the record r1: `closed` is the base key of the
\* session it closed (0: none).
closeOpen(r1, open) ==
    IF open = None THEN [record |-> Some(r1), stored |-> FALSE, closed |-> 0]
    ELSE [record |-> Some(closeSession(r1, open[1], now)), stored |-> TRUE,
          closed |-> open[1]]

\* The job of SessionCipher.closeOpenSession.
closeOpenSessionJob(p) ==
    LET loaded == getRecord(p) IN
    IF loaded = None THEN [record |-> None, stored |-> FALSE, closed |-> 0]
    ELSE closeOpen(afterGetOpenSession(loaded[1]), getOpenSession(loaded[1]))

\* The job of SessionCipher.hasOpenSession: what it returns.
hasOpenSessionJob(p) ==
    getRecord(p) # None /\ haveOpenSession(getRecord(p)[1])

---------------------------------------------------------------------------
(* Frames in transit *)

\* What can happen to a frame between encrypt and decrypt.
VersionModes == [versionLow |-> 52, versionHigh |-> 35, versionOther |-> 67]
InnerModes == {"none", "ciphertext", "mac", "counter", "previousCounter",
               "ephemeralKey", "versionLow", "versionHigh", "versionOther"}
OuterModes == {"outerLow", "outerHigh", "outerOther", "identityKey"}

bumpLast(buf) == [buf EXCEPT ![Len(buf)] = @ + 100]

tamperInner(inner, mode) ==
    CASE mode = "ciphertext" -> [inner EXCEPT !.messageProto = bumpLast(@)]
      [] mode = "mac" -> [inner EXCEPT !.mac = bumpLast(@)]
      [] mode = "counter" -> [inner EXCEPT !.messageProto[2] = @ + 1]
      [] mode = "previousCounter" -> [inner EXCEPT !.messageProto[3] = @ + 1]
      [] mode = "ephemeralKey" -> [inner EXCEPT !.messageProto[1] = Keys.bogus]
      [] mode \in DOMAIN VersionModes -> [inner EXCEPT !.version = VersionModes[mode]]
      [] OTHER -> inner

tamperOuter(outer, mode) ==
    CASE mode = "outerLow" -> [outer EXCEPT !.version = VersionModes.versionLow]
      [] mode = "outerHigh" -> [outer EXCEPT !.version = VersionModes.versionHigh]
      [] mode = "outerOther" -> [outer EXCEPT !.version = VersionModes.versionOther]
      [] mode = "identityKey" -> [outer EXCEPT !.identityKey = Keys.bogus]
      [] OTHER -> outer

\* The coordinates of a sent frame: its ratchet key and its counter.
ephOf(i) == decodeWhisperMessage(sent[i].inner.messageProto).ephemeralKey
counterOf(i) == decodeWhisperMessage(sent[i].inner.messageProto).counter

\* The frame that is next in send order for p: the first one from the peer
\* that p has not been given yet.
nextInOrder(p, i) ==
    /\ dstat[i] = "new"
    /\ \A j \in 1..(i - 1) : sent[j].from = Peer(p) => dstat[j] # "new"

---------------------------------------------------------------------------
(* The state machine *)

\* What the last operation was and how it ended: `errs` are the errors of
\* the sessions tried in vain, `failedSame` tells that those sessions are in
\* the record as they were when the job got it, `recordSame` that the whole
\* record is, `built` that a session was constructed, `idsDiffer` that an
\* identity key the job used is not the one encrypt used for the frame,
\* `session` the base key of the session that decrypted the frame (0: none),
\* `fault` what storage did during the call, `storageSame` that the
\* document in storage is the one that was there before the call, `mru`
\* that the getSessions() of the call returned the sessions most recently
\* used first, `open` what hasOpenSession returned.  For closeOpenSession
\* `session` is the base key of the session it closed (0: none).
NoLast == [op |-> "none", who |-> "A", idx |-> 0, mode |-> "none", err |-> "none",
           plaintext |-> 0, was |-> "new", inOrder |-> FALSE, stored |-> FALSE,
           errs |-> << >>, failedSame |-> TRUE, recordSame |-> TRUE, built |-> FALSE,
           idsDiffer |-> FALSE, session |-> 0, fault |-> "none", storageSame |-> TRUE,
           mru |-> TRUE, open |-> FALSE]

\* A chain as calculateRatchet installs it: no message keys, counter -1, a
\* chain key.
newChain ==
    [messageKeys |-> EmptyMap,
     chainKey |-> [counter |-> -1,
                   key |-> Some(deriveSecrets(<<Keys.fresh>>, <<Keys.fresh>>,
                                              "WhisperRatchet", 2)[2])],
     chainType |-> ChainType.RECEIVING]

\* No function has been called yet.
NoCall == [op |-> "none", memo |-> EmptyMap]

\* The document in storage after a job that ended as `res` is the one before.
storageKept(p, res) == res.stored => storedDocument(res.record[1]) = store[p]

\* Storage refuses or fails during at most MaxFaults calls.
Faulted(fault) ==
    /\ fault # "none" => faults < MaxFaults
    /\ faults' = IF fault = "none" THEN faults ELSE faults + 1

Init ==
    /\ now = CACHE_TTL
    /\ nextKey = Keys.fresh
    /\ preKeys = OneTimePreKeysB
    /\ identity = [p \in Party |-> IF p = "A" THEN Keys.identityA ELSE Keys.identityB]
    /\ store = [p \in Party |-> None]
    /\ cached = [p \in Party |-> None]
    /\ lastUpdate = [p \in Party |-> 0]
    /\ idCache = [p \in Party |-> None]
    /\ sent = << >>
    /\ dstat = << >>
    /\ ordered = [p \in Party |-> TRUE]
    /\ tampers = [p \in Party |-> 0]
    /\ inits = 0
    /\ last = NoLast
    /\ calls = << >>
    /\ queues = [a \in Address |-> << >>]
    /\ rec = newRecord(now)
    /\ faults = 0
    /\ oneChain = newChain
    /\ call = NoCall

\* Time passes: a second, the lifetime of the cipher's cached record.
Tick ==
    /\ now < CACHE_TTL * (1 + MaxTicks)
    /\ now' = now + CACHE_TTL
    /\ last' = [NoLast EXCEPT !.op = "tick"]
    /\ UNCHANGED <<nextKey, preKeys, identity, store, cached, lastUpdate, idCache,
                   sent, dstat, ordered, tampers, inits>>
    /\ UNCHANGED <<calls, queues, rec, faults, oneChain, call>>

\* A party's identity key pair is replaced in its storage.
Rotate(p) ==
    /\ Cardinality({q \in Party : identity[q] \in {Keys.rotatedA, Keys.rotatedB}})
            < MaxRotations
    /\ identity[p] \notin {Keys.rotatedA, Keys.rotatedB}
    /\ identity' = [identity EXCEPT ![p] = IF p = "A" THEN Keys.rotatedA
                                          ELSE Keys.rotatedB]
    /\ last' = [NoLast EXCEPT !.op = "rotate", !.who = p]
    /\ UNCHANGED <<now, nextKey, preKeys, store, cached, lastUpdate, idCache,
                   sent, dstat, ordered, tampers, inits>>
    /\ UNCHANGED <<calls, queues, rec, faults, oneChain, call>>

\* A builds a session from B's prekey bundle: SessionBuilder.initOutgoing.
\* Each bundle carries a one-time prekey no earlier bundle carried.
InitOutgoing(preKey) ==
    /\ inits < MaxInits
    /\ preKey = Some(Keys.signedPreKeyB + inits + 1)
    /\ LET bundle == [identityKey |-> identity["B"], registrationId |-> RegistrationId.B,
                      signedPreKey |-> Keys.signedPreKeyB,
                      signedPreKeyId |-> SignedPreKeyIdB, preKey |-> preKey]
           loaded == loadSession(store["A"], now)
           record == IF loaded = None THEN newRecord(now) ELSE loaded[1]
           session == outgoingSession(identity["A"], bundle, nextKey, now)
       IN store' = [store EXCEPT !["A"] = storeSession(initOutgoing(record, session, now))]
    /\ nextKey' = nextKey + 1
    /\ inits' = inits + 1
    /\ last' = [NoLast EXCEPT !.op = "initOutgoing"]
    /\ UNCHANGED <<now, preKeys, identity, cached, lastUpdate, idCache,
                   sent, dstat, ordered, tampers>>
    /\ UNCHANGED <<calls, queues, rec, faults, oneChain, call>>

\* SessionCipher.encrypt.  The k-th frame sent carries plaintext k, so that
\* no two frames carry the same.
EncryptUpTo(p, data, fault, most) ==
    /\ Len(sent) < most
    /\ data = Len(sent) + 1
    /\ Faulted(fault)
    /\ LET ourIdentity == IF idCache[p] = None THEN identity[p] ELSE idCache[p][1]
           res == encryptJob(p, data, ourIdentity, fault)
       IN /\ idCache' = [idCache EXCEPT ![p] = Some(ourIdentity)]
          /\ IF res.stored
             THEN /\ store' = [store EXCEPT ![p] = storedDocument(res.record[1])]
                  /\ cached' = [cached EXCEPT ![p] = recordAfterStore(res.record[1])]
                  /\ lastUpdate' = [lastUpdate EXCEPT ![p] = now]
             ELSE /\ cached' = [cached EXCEPT ![p] = res.record]
                  /\ lastUpdate' = [lastUpdate EXCEPT ![p] = lastUpdateAfterGet(p)]
                  /\ UNCHANGED store
          /\ sent' = IF res.frame = None THEN sent ELSE Append(sent, res.frame[1])
          /\ dstat' = IF res.frame = None THEN dstat ELSE Append(dstat, "new")
          /\ last' = [NoLast EXCEPT !.op = "encrypt", !.who = p, !.err = res.err,
                                    !.idx = IF res.frame = None THEN 0 ELSE Len(sent) + 1,
                                    !.stored = res.stored, !.fault = fault,
                                    !.recordSame = recordContent(res.record)
                                                      = recordContent(getRecord(p)),
                                    !.storageSame = storageKept(p, res)]
    /\ UNCHANGED <<now, nextKey, preKeys, identity, ordered, tampers, inits>>
    /\ UNCHANGED <<calls, queues, rec, oneChain, call>>

Encrypt(p, data, fault) == EncryptUpTo(p, data, fault, MaxSent)

\* The bookkeeping of a delivery of sent[i], modified as `mode` says, to p.
Delivered(p, i, mode, op, res, fault) ==
    /\ Faulted(fault)
    /\ dstat' = [dstat EXCEPT ![i] = IF mode = "none" /\ res.err = "none" THEN "ok"
                                     ELSE IF @ = "new" /\ mode = "none" THEN "fail"
                                     ELSE IF @ = "new" /\ Len(res.failed) = 1
                                             /\ res.failed[1].err = "MacError"
                                     THEN "macfail"
                                     ELSE @]
    /\ ordered' = [ordered EXCEPT ![p] = @ /\ mode = "none" /\ nextInOrder(p, i)]
    /\ mode # "none" => tampers["A"] + tampers["B"] < MaxTampered
    /\ tampers' = [tampers EXCEPT ![p] = IF mode = "none" THEN @ ELSE @ + 1]
    /\ last' = [op |-> op, who |-> p, idx |-> i, mode |-> mode, err |-> res.err,
                plaintext |-> res.plaintext, was |-> dstat[i],
                inOrder |-> ordered[p] /\ mode = "none" /\ nextInOrder(p, i),
                stored |-> res.stored,
                errs |-> Array([k \in 1..Len(res.failed) |-> res.failed[k].err]),
                failedSame |-> \A k \in 1..Len(res.failed) :
                                 sameSession(getRecord(p), res.record, res.failed[k].baseKey),
                recordSame |-> recordContent(res.record) = recordContent(getRecord(p)),
                built |-> res.built,
                idsDiffer |-> \/ identity[p] # sent[i].ids.theirs
                              \/ /\ res.remotes # {}
                                 /\ sent[i].ids.ours \notin res.remotes,
                session |-> res.session, fault |-> fault,
                storageSame |-> storageKept(p, res),
                mru |-> \/ getRecord(p) = None
                        \/ mostRecentFirst(getRecord(p)[1], getSessions(getRecord(p)[1])),
                open |-> FALSE]

\* The effect of a decrypt job on the cipher and on storage.
Finished(p, res) ==
    /\ IF res.stored
       THEN /\ store' = [store EXCEPT ![p] = storedDocument(res.record[1])]
            /\ cached' = [cached EXCEPT ![p] = recordAfterStore(res.record[1])]
            /\ lastUpdate' = [lastUpdate EXCEPT ![p] = now]
       ELSE /\ cached' = [cached EXCEPT ![p] = res.record]
            /\ lastUpdate' = [lastUpdate EXCEPT ![p] = lastUpdateAfterGet(p)]
            /\ UNCHANGED store
    /\ nextKey' = res.nextKey
    /\ preKeys' = IF res.removed = None THEN preKeys ELSE preKeys \ {res.removed[1]}

\* SessionCipher.decryptWhisperMessage of a type 1 frame.
DeliverWhisper(i, mode, fault) ==
    /\ sent[i].outer = None
    /\ LET p == Peer(sent[i].from)
           res == decryptWhisperJob(p, tamperInner(sent[i].inner, mode), fault)
       IN Finished(p, res) /\ Delivered(p, i, mode, "decryptWhisperMessage", res, fault)
    /\ UNCHANGED <<now, identity, idCache, sent, inits>>
    /\ UNCHANGED <<calls, queues, rec, oneChain, call>>

\* SessionCipher.decryptPreKeyWhisperMessage of a type 3 frame: the version
\* check of the outer frame comes before the job.
DeliverPreKey(i, mode, fault) ==
    /\ sent[i].outer # None
    /\ LET p == Peer(sent[i].from)
           outer == tamperOuter(sent[i].outer[1], mode)
           inner == tamperInner(sent[i].inner, mode)
           res == IF ~versionOk(outer.version)
                  THEN [err |-> "VersionError", record |-> cached[p], stored |-> FALSE,
                        plaintext |-> 0, nextKey |-> nextKey, failed |-> << >>,
                        removed |-> None, built |-> FALSE, remotes |-> {},
                        session |-> 0]
                  ELSE decryptPreKeyJob(p, outer, inner, fault)
       IN /\ IF ~versionOk(outer.version)
             THEN UNCHANGED <<store, cached, lastUpdate, nextKey, preKeys>>
             ELSE Finished(p, res)
          /\ Delivered(p, i, mode, "decryptPreKeyWhisperMessage", res, fault)
    /\ UNCHANGED <<now, identity, idCache, sent, inits>>
    /\ UNCHANGED <<calls, queues, rec, oneChain, call>>

\* SessionCipher.closeOpenSession
CloseOpenSession(p) ==
    /\ LET res == closeOpenSessionJob(p) IN
       /\ IF res.stored
          THEN /\ store' = [store EXCEPT ![p] = storedDocument(res.record[1])]
               /\ cached' = [cached EXCEPT ![p] = recordAfterStore(res.record[1])]
               /\ lastUpdate' = [lastUpdate EXCEPT ![p] = now]
          ELSE /\ cached' = [cached EXCEPT ![p] = res.record]
               /\ lastUpdate' = [lastUpdate EXCEPT ![p] = lastUpdateAfterGet(p)]
               /\ UNCHANGED store
       /\ last' = [NoLast EXCEPT !.op = "closeOpenSession", !.who = p,
                                 !.stored = res.stored, !.session = res.closed]
    /\ UNCHANGED <<now, nextKey, preKeys, identity, idCache, sent, dstat, ordered,
                   tampers, inits>>
    /\ UNCHANGED <<calls, queues, rec, faults, oneChain, call>>

\* SessionCipher.hasOpenSession
HasOpenSession(p) ==
    /\ cached' = [cached EXCEPT ![p] = IF getRecord(p) = None THEN None
                                       ELSE Some(afterHaveOpenSession(getRecord(p)[1]))]
    /\ lastUpdate' = [lastUpdate EXCEPT ![p] = lastUpdateAfterGet(p)]
    /\ last' = [NoLast EXCEPT !.op = "hasOpenSession", !.who = p,
                              !.open = hasOpenSessionJob(p)]
    /\ UNCHANGED <<now, nextKey, preKeys, identity, store, idCache, sent, dstat,
                   ordered, tampers, inits>>
    /\ UNCHANGED <<calls, queues, rec, faults, oneChain, call>>

\* Frames arrive as they were sent: nothing is modified in transit.
Next ==
    \/ Tick
    \/ \E k \in OneTimePreKeysB : InitOutgoing(Some(k))
    \/ \E p \in Party, data \in Plaintexts : Encrypt(p, data, "none")
    \/ \E i \in 1..Len(sent) : DeliverWhisper(i, "none", "none")
    \/ \E i \in 1..Len(sent) : DeliverPreKey(i, "none", "none")

Spec == Init /\ [][Next]_vars

\* Frames may be modified in transit and identity keys may be replaced; one
\* session, and one frame fewer than in Spec.
NextTransit ==
    \/ Tick
    \/ \E p \in Party : Rotate(p)
    \/ \E k \in OneTimePreKeysB : inits = 0 /\ InitOutgoing(Some(k))
    \/ \E p \in Party, data \in Plaintexts :
            Len(sent) < MaxSent - 1 /\ Encrypt(p, data, "none")
    \/ \E i \in 1..Len(sent), mode \in InnerModes : DeliverWhisper(i, mode, "none")
    \/ \E i \in 1..Len(sent), mode \in InnerModes \cup OuterModes :
            DeliverPreKey(i, mode, "none")

SpecTransit == Init /\ [][NextTransit]_vars

\* Frames arrive as they were sent, one session, and storage may refuse an
\* identity or fail a request during a call of the cipher.
NextFaults ==
    \/ Tick
    \/ \E k \in OneTimePreKeysB : inits = 0 /\ InitOutgoing(Some(k))
    \/ \E p \in Party, data \in Plaintexts, fault \in Faults : Encrypt(p, data, fault)
    \/ \E i \in 1..Len(sent), fault \in Faults : DeliverWhisper(i, "none", fault)
    \/ \E i \in 1..Len(sent), fault \in Faults : DeliverPreKey(i, "none", fault)

SpecFaults == Init /\ [][NextFaults]_vars

\* Frames arrive as they were sent, one session, and the parties close
\* their open session and ask whether they have one.
NextClose ==
    \/ Tick
    \/ \E k \in OneTimePreKeysB : inits = 0 /\ InitOutgoing(Some(k))
    \/ \E p \in Party, data \in Plaintexts : Encrypt(p, data, "none")
    \/ \E i \in 1..Len(sent) : DeliverWhisper(i, "none", "none")
    \/ \E i \in 1..Len(sent) : DeliverPreKey(i, "none", "none")
    \/ \E p \in Party : CloseOpenSession(p)
    \/ \E p \in Party : HasOpenSession(p)

SpecClose == Init /\ [][NextClose]_vars

\* One session over several ratchet epochs: frames arrive as they were
\* sent and in the order in which they were sent.
NextEpoch ==
    \/ Tick
    \/ \E k \in OneTimePreKeysB : inits = 0 /\ InitOutgoing(Some(k))
    \/ \E p \in Party, data \in 1..MaxEpochSent :
            EncryptUpTo(p, data, "none", MaxEpochSent)
    \/ \E i \in 1..Len(sent) :
            nextInOrder(Peer(sent[i].from), i) /\ DeliverWhisper(i, "none", "none")
    \/ \E i \in 1..Len(sent) :
            nextInOrder(Peer(sent[i].from), i) /\ DeliverPreKey(i, "none", "none")

SpecEpoch == Init /\ [][NextEpoch]_vars

---------------------------------------------------------------------------
(* The job queue.  A call is [op, addr, pc, step]: pc is "awaitIdentity"   *)
(* while encrypt awaits getOurIdentityKey() before it queues its job,      *)
(* "queued" once queueJob has the job, "running" from the moment the job   *)
(* calls getRecord() until it returns or throws, then "done" or "failed";  *)
(* step is the storage call a running job is suspended at.                 *)

Ops == {"encrypt", "decryptWhisperMessage", "decryptPreKeyWhisperMessage",
        "hasOpenSession", "closeOpenSession"}

\* What a call awaits before it hands its job to queueJob.
preQueue(op) == IF op = "encrypt" THEN <<"getOurIdentity">> ELSE << >>

\* The storage calls a job awaits, in the order of the code.
jobSteps(op) ==
    CASE op = "encrypt" ->
            <<"loadSession", "isTrustedIdentity", "storeSession", "getOurRegistrationId">>
      [] op = "decryptWhisperMessage" ->
            <<"loadSession", "getOurIdentity", "isTrustedIdentity", "storeSession">>
      [] op = "decryptPreKeyWhisperMessage" ->
            <<"loadSession", "loadSignedPreKey", "getOurIdentity", "storeSession",
              "removePreKey">>
      [] op = "hasOpenSession" -> <<"loadSession">>
      [] op = "closeOpenSession" -> <<"loadSession", "storeSession">>

\* The job can return once the call it is suspended at has answered: the
\* calls after this one are made on some paths only (getOurRegistrationId
\* with a pendingPreKey, removePreKey with a preKeyId, closeOpenSession's
\* storeSession with an open session).
mayReturn(op, step) ==
    CASE op = "encrypt" -> step >= 3
      [] op = "decryptWhisperMessage" -> step = 4
      [] op = "decryptPreKeyWhisperMessage" -> step >= 4
      [] op = "hasOpenSession" -> step = 1
      [] op = "closeOpenSession" -> step >= 1

\* queue_job: a job is pushed at the end of its bucket.
enqueue(queue, c) == Append(queue, c)

\* An executor without order: it starts any job of the bucket.
mayStartAny(queue, c) == \E k \in 1..Len(queue) : queue[k] = c

\* queue_job: the executor of a bucket runs the job at its head, and takes
\* the next one when that job has returned or thrown.
mayStart(queue, c) == queue # << >> /\ Head(queue) = c

\* queue_job: a job that has returned or thrown leaves its bucket.
dequeue(queue, c) == SelectSeq(queue, LAMBDA d : d # c)

running(c) == calls[c].pc = "running"
finished(c) == calls[c].pc \in {"done", "failed"}

cipherVars == <<now, nextKey, preKeys, identity, store, cached, lastUpdate, idCache,
                sent, dstat, ordered, tampers, inits, last, rec, faults, oneChain, call>>

\* A caller invokes an operation of the cipher for addr.  Every operation
\* but encrypt queues its job before it returns to the caller.
Invoke(op, addr) ==
    /\ Len(calls) < MaxCalls
    /\ calls' = Append(calls, [op |-> op, addr |-> addr, step |-> 0,
                               pc |-> IF preQueue(op) = << >> THEN "queued"
                                      ELSE "awaitIdentity"])
    /\ queues' = IF preQueue(op) = << >>
                 THEN [queues EXCEPT ![addr] = enqueue(@, Len(calls) + 1)]
                 ELSE queues
    /\ UNCHANGED cipherVars

\* encrypt: getOurIdentityKey() has answered, the job is queued.
IdentityResolved(c) ==
    /\ calls[c].pc = "awaitIdentity"
    /\ calls' = [calls EXCEPT ![c].pc = "queued"]
    /\ queues' = [queues EXCEPT ![calls[c].addr] = enqueue(@, c)]
    /\ UNCHANGED cipherVars

\* The executor starts a job: the job calls getRecord().
StartJob(c) ==
    /\ calls[c].pc = "queued"
    /\ mayStart(queues[calls[c].addr], c)
    /\ calls' = [calls EXCEPT ![c].pc = "running", ![c].step = 1]
    /\ UNCHANGED <<queues, cipherVars>>

\* A storage call answers and the job runs on to its next storage call.
StepJob(c) ==
    /\ running(c)
    /\ calls[c].step < Len(jobSteps(calls[c].op))
    /\ calls' = [calls EXCEPT ![c].step = @ + 1]
    /\ UNCHANGED <<queues, cipherVars>>

\* The job returns.
ReturnJob(c) ==
    /\ running(c)
    /\ mayReturn(calls[c].op, calls[c].step)
    /\ calls' = [calls EXCEPT ![c].pc = "done"]
    /\ queues' = [queues EXCEPT ![calls[c].addr] = dequeue(@, c)]
    /\ UNCHANGED cipherVars

\* The job throws, at the storage call it is suspended at or after it.
FailJob(c) ==
    /\ running(c)
    /\ calls' = [calls EXCEPT ![c].pc = "failed"]
    /\ queues' = [queues EXCEPT ![calls[c].addr] = dequeue(@, c)]
    /\ UNCHANGED cipherVars

\* Callers and the job queue of one process.
NextQueue ==
    \/ \E op \in Ops, addr \in Address : Invoke(op, addr)
    \/ \E c \in 1..Len(calls) : IdentityResolved(c)
    \/ \E c \in 1..Len(calls) : StartJob(c)
    \/ \E c \in 1..Len(calls) : StepJob(c)
    \/ \E c \in 1..Len(calls) : ReturnJob(c)
    \/ \E c \in 1..Len(calls) : FailJob(c)

SpecQueue == Init /\ [][NextQueue]_vars

---------------------------------------------------------------------------
(* A SessionRecord driven through its own methods.  The sessions filed are *)
(* sessions for B's bundle, each under a base key no session of the record *)
(* is filed under; only the first MaxClosable sessions of the record are   *)
(* closed or opened.                                                       *)

entry(baseKey, t) ==
    outgoingSession(Keys.identityA,
                    [identityKey |-> Keys.identityB, registrationId |-> RegistrationId.B,
                     signedPreKey |-> Keys.signedPreKeyB,
                     signedPreKeyId |-> SignedPreKeyIdB, preKey |-> None],
                    baseKey, t)

\* A base key above those of the sessions of the record.
freshBaseKey(record) ==
    IF record.sessions = << >> THEN Keys.fresh
    ELSE 1 + CHOOSE k \in {record.sessions[i].indexInfo.baseKey :
                                i \in 1..Len(record.sessions)} :
                \A i \in 1..Len(record.sessions) : record.sessions[i].indexInfo.baseKey <= k

recordVars == <<nextKey, preKeys, identity, store, cached, lastUpdate, idCache, sent, dstat,
                ordered, tampers, inits, calls, queues, faults,
                oneChain, call>>

closable == 1..(IF Len(rec.sessions) < MaxClosable THEN Len(rec.sessions) ELSE MaxClosable)

SetSession ==
    /\ freshBaseKey(rec) < Keys.fresh + MaxSessions
    /\ rec' = setSession(rec, entry(freshBaseKey(rec), now))
    /\ last' = [NoLast EXCEPT !.op = "setSession"]
    /\ UNCHANGED <<now, recordVars>>

SetSessionsBatch ==
    /\ freshBaseKey(rec) + BatchSize <= Keys.fresh + MaxSessions
    /\ rec' = setSessionsBatch(rec, Array([n \in 1..BatchSize |->
                                            entry(freshBaseKey(rec) + n - 1, now)]))
    /\ last' = [NoLast EXCEPT !.op = "setSessionsBatch"]
    /\ UNCHANGED <<now, recordVars>>

CloseSession(i) ==
    /\ rec' = closeSession(rec, rec.sessions[i].indexInfo.baseKey, now)
    /\ last' = [NoLast EXCEPT !.op = "closeSession"]
    /\ UNCHANGED <<now, recordVars>>

OpenSession(i) ==
    /\ rec' = openSession(rec, rec.sessions[i].indexInfo.baseKey)
    /\ last' = [NoLast EXCEPT !.op = "openSession"]
    /\ UNCHANGED <<now, recordVars>>

CloseSessionsBatch ==
    /\ rec' = closeSessionsBatch(rec, {rec.sessions[i].indexInfo.baseKey : i \in closable},
                                 now)
    /\ last' = [NoLast EXCEPT !.op = "closeSessionsBatch"]
    /\ UNCHANGED <<now, recordVars>>

RemoveOldSessions ==
    /\ rec' = removeOldSessions(rec, now)
    /\ last' = [NoLast EXCEPT !.op = "removeOldSessions"]
    /\ UNCHANGED <<now, recordVars>>

DeleteAllSessions ==
    /\ rec' = deleteAllSessions(rec)
    /\ last' = [NoLast EXCEPT !.op = "deleteAllSessions"]
    /\ UNCHANGED <<now, recordVars>>

\* Five minutes pass, the interval between two cleanups of a record.
Idle ==
    /\ now < CACHE_TTL + MaxIdle * CLEANUP_INTERVAL
    /\ now' = now + CLEANUP_INTERVAL
    /\ last' = [NoLast EXCEPT !.op = "idle"]
    /\ UNCHANGED <<rec, recordVars>>

NextRecord ==
    \/ SetSession
    \/ SetSessionsBatch
    \/ \E i \in closable : CloseSession(i)
    \/ \E i \in closable : OpenSession(i)
    \/ CloseSessionsBatch
    \/ RemoveOldSessions
    \/ DeleteAllSessions
    \/ Idle

SpecRecord == Init /\ [][NextRecord]_vars

---------------------------------------------------------------------------
(* A SessionRecord asked for its open session.  The sessions filed have a  *)
(* registrationId or, like the sessions of a version 1 document, none.     *)

\* The registrationId of a session filed: a number, or missing.
RegistrationIds == {RegistrationId.B, -1}

entryOf(baseKey, t, registrationId) ==
    [entry(baseKey, t) EXCEPT !.registrationId = registrationId]

FileSession(registrationId) ==
    /\ Len(rec.sessions) < MaxFiled
    /\ rec' = setSession(rec, entryOf(freshBaseKey(rec), now, registrationId))
    /\ last' = [NoLast EXCEPT !.op = "setSession"]
    /\ UNCHANGED <<now, recordVars>>

GetOpenSession ==
    /\ rec' = afterGetOpenSession(rec)
    /\ last' = [NoLast EXCEPT !.op = "getOpenSession",
                              !.session = IF getOpenSession(rec) = None THEN 0
                                          ELSE getOpenSession(rec)[1]]
    /\ UNCHANGED <<now, recordVars>>

HaveOpenSession ==
    /\ rec' = afterHaveOpenSession(rec)
    /\ last' = [NoLast EXCEPT !.op = "haveOpenSession", !.open = haveOpenSession(rec)]
    /\ UNCHANGED <<now, recordVars>>

NextOpen ==
    \/ \E registrationId \in RegistrationIds : FileSession(registrationId)
    \/ \E i \in closable : CloseSession(i)
    \/ \E i \in closable : OpenSession(i)
    \/ GetOpenSession
    \/ HaveOpenSession

SpecOpen == Init /\ [][NextOpen]_vars

---------------------------------------------------------------------------
(* Properties *)

isDecrypt == last.op \in {"decryptWhisperMessage", "decryptPreKeyWhisperMessage"}

\* The last operation returned the plaintext of the frame it was given.
returnedPlaintext == last.err = "none" /\ last.plaintext = sent[last.idx].pt

\* No other frame of the same sender has the ratchet key and counter of sent[i].
uniqueCoordinates(i) ==
    \A j \in 1..Len(sent) :
        (j # i /\ sent[j].from = sent[i].from /\ ephOf(j) = ephOf(i))
            => counterOf(j) # counterOf(i)

\* C1: a decrypt call given the next frame in send order, unmodified, by a
\* party that was given every earlier frame unmodified and in send order,
\* succeeds and returns the plaintext of that frame.
RoundTripInOrder == (isDecrypt /\ last.inOrder) => returnedPlaintext

\* C2: a decrypt call given, unmodified and for the first time, a frame whose
\* counter no other frame of its sending chain has, succeeds and returns the
\* plaintext of that frame, whatever the order in which the frames arrive.
OutOfOrderTolerance ==
    (isDecrypt /\ last.mode = "none" /\ last.was = "new" /\ uniqueCoordinates(last.idx))
        => returnedPlaintext

\* A frame is decrypted after a frame sent later on the same chain was.
OutOfOrderDecrypted ==
    /\ isDecrypt /\ last.was = "new" /\ uniqueCoordinates(last.idx)
    /\ returnedPlaintext
    /\ \E j \in 1..Len(sent) :
          /\ j > last.idx /\ sent[j].from = sent[last.idx].from
          /\ ephOf(j) = ephOf(last.idx) /\ counterOf(j) > counterOf(last.idx)
          /\ dstat[j] = "ok"

\* C3: of two frames one party sent under the same ratchet key, the later
\* one has the greater counter.
SendingCountersIncrease ==
    \A i, j \in 1..Len(sent) :
        (i < j /\ sent[i].from = sent[j].from /\ ephOf(i) = ephOf(j))
            => counterOf(i) < counterOf(j)

\* C4: after a job stored the record, the record deserialized from the
\* stored document holds the same sessions, with the same ratchet state,
\* chains, message keys, pendingPreKey and indexInfo, as the record that was
\* serialized.
SerializationFixpoint ==
    \A p \in Party :
        (last.stored /\ last.who = p)
            => recordContent(loadSession(store[p], now)) = recordContent(cached[p])

\* The session that decrypted the frame of the last operation, as the
\* cipher holds it.
decryptingSession == sessionOf(cached[last.who][1], last.session)

\* C5: after decryptWhisperMessage succeeded for a frame, the chain of the
\* frame in the session that decrypted it holds no message key for the
\* counter of the frame, and decryptWhisperMessage given a frame it decrypted
\* before fails, an attempt against a session ending in MessageCounterError.
ForwardSecrecy ==
    /\ (last.op = "decryptWhisperMessage" /\ last.err = "none")
        => (hasChain(decryptingSession, ephOf(last.idx))
               => counterOf(last.idx) \notin
                     DOMAIN getChain(decryptingSession, ephOf(last.idx)).messageKeys)
    /\ (last.op = "decryptWhisperMessage" /\ last.mode = "none" /\ last.was = "ok")
        => /\ last.err # "none" /\ last.plaintext = 0
           /\ \E k \in 1..Len(last.errs) : last.errs[k] = "MessageCounterError"

\* C7: when decryptWhisperMessage succeeded after its attempts against other
\* sessions failed, the record it stored holds those sessions as they were
\* when the job got the record.
FailedSessionsUntouched ==
    (last.op = "decryptWhisperMessage" /\ last.err = "none" /\ Len(last.errs) > 0)
        => last.failedSame

\* The modifications of the encoded WhisperMessage and of its MAC bytes.
ContentModes == {"ciphertext", "mac", "counter", "previousCounter", "ephemeralKey"}

\* The last decrypt call gave up a frame at a version check.
rejectedByGate ==
    \/ last.err = "VersionError"
    \/ \E k \in 1..Len(last.errs) : last.errs[k] = "VersionError"

\* Every attempt of the last decrypt call failed at the MAC check.
failedAtMac ==
    /\ last.err # "none" /\ last.plaintext = 0
    /\ Len(last.errs) > 0
    /\ \A k \in 1..Len(last.errs) : last.errs[k] = "MacError"

\* No identity key pair was replaced.
identitiesKept == identity = [p \in Party |-> IF p = "A" THEN Keys.identityA
                                             ELSE Keys.identityB]

\* The frame of the last decrypt call had its encoded message or its MAC
\* bytes modified, or the call used an identity key other than the one
\* encrypt used.
contentOrIdentityDiffers ==
    \/ last.mode \in ContentModes
    \/ last.mode \in {"none", "identityKey"} /\ last.idsDiffer

\* C6: after an attempt on a frame failed at the MAC check, the message key
\* of the frame is still in its chain, and a decrypt call given the frame
\* unmodified succeeds and returns its plaintext.
MacFailureKeepsKey ==
    /\ (isDecrypt /\ last.errs = <<"MacError">> /\ cached[last.who] # None
            /\ last.mode \in {"none", "mac", "ciphertext"})
        => \E n \in 1..Len(cached[last.who][1].sessions) :
              LET session == cached[last.who][1].sessions[n] IN
              /\ hasChain(session, ephOf(last.idx))
              /\ counterOf(last.idx) \in DOMAIN getChain(session, ephOf(last.idx)).messageKeys
    /\ (isDecrypt /\ last.mode = "none" /\ last.was = "macfail" /\ identitiesKept
            /\ uniqueCoordinates(last.idx))
        => returnedPlaintext

MacBindsVersionByte ==
    (isDecrypt /\ last.mode \in DOMAIN VersionModes)
        => (last.err # "none" /\ last.plaintext = 0)

\* C10: the version check accepts a byte iff its high nibble is at least 3
\* and its low nibble at most 3, and a decrypt call that gave up a frame at
\* the version check constructed no session and left the record as it was.
VersionGate ==
    /\ \A byte \in 0..255 :
          versionOk(byte) <=> (byte \div 16 >= 3 /\ byte % 16 <= 3)
    /\ (isDecrypt /\ rejectedByGate) => (~last.built /\ last.recordSame)

\* C11: two jobs for the same address never run at the same time: from the
\* moment a job obtains the record until it has returned or thrown, across
\* every storage call it is suspended at, no other job for that address runs.
SingleWriter ==
    \A c, d \in 1..Len(calls) :
        c # d /\ calls[c].addr = calls[d].addr => ~(running(c) /\ running(d))

\* A job suspended past its first storage call while another job for the
\* same address waits and a job for another address runs.
JobsInterleaveAcrossAddresses ==
    \E c, d, e \in 1..Len(calls) :
        /\ running(c) /\ calls[c].step >= 2
        /\ calls[d].addr = calls[c].addr /\ calls[d].pc = "queued"
        /\ calls[e].addr # calls[c].addr /\ running(e)

\* C12: the jobs of one address run in the order their operations were
\* invoked: a job has started only if every operation invoked before it on
\* the same address has run to completion.
FifoByInvocation ==
    \A c, d \in 1..Len(calls) :
        c < d /\ calls[c].addr = calls[d].addr /\ (running(d) \/ finished(d))
            => finished(c)

\* C13: a job that reports an error leaves storage untouched: whenever
\* encrypt, decryptWhisperMessage or decryptPreKeyWhisperMessage ends with an
\* error, an error of a storage call included, the document in storage is
\* the one that was there before the call.
FailedJobLeavesStorage ==
    /\ last.op \in {"encrypt", "decryptWhisperMessage", "decryptPreKeyWhisperMessage"}
    /\ last.err # "none"
    => last.storageSame

\* The cipher of the last call holds a record with an open session.
holdsOpenSession ==
    cached[last.who] # None /\ getOpenSession(cached[last.who][1]) # None

\* C14: when isTrustedIdentity answers false for the open session, encrypt
\* fails with UntrustedIdentityKeyError, the record (the sending chain's
\* counter and key with it) is as it was, and storeSession is not called.
UntrustedEncryptFails ==
    last.op = "encrypt" /\ last.fault = "untrusted" /\ holdsOpenSession
        => /\ last.err = "UntrustedIdentityKeyError"
           /\ last.recordSame
           /\ ~last.stored /\ last.storageSame

\* An encrypt on an open session that has sent before is refused.
UntrustedEncryptRefused ==
    /\ last.op = "encrypt" /\ last.fault = "untrusted" /\ holdsOpenSession
    /\ last.err = "UntrustedIdentityKeyError"
    /\ \E i \in 1..Len(sent) : sent[i].from = last.who

\* C15: when isTrustedIdentity answers false during decryptWhisperMessage,
\* the call fails with UntrustedIdentityKeyError and the record the cipher
\* works on next is the record as it was before the call, in memory and in
\* storage.
UntrustedDecryptKeepsRecord ==
    last.op = "decryptWhisperMessage" /\ last.err = "UntrustedIdentityKeyError"
        => last.recordSame /\ ~last.stored /\ last.storageSame

\* C16: a record holds at most one open session (indexInfo.closed = -1),
\* whatever sequence of its methods has been called on it.
AtMostOneOpenSession ==
    Cardinality({i \in 1..Len(rec.sessions) : ~isClosed(rec.sessions[i])}) <= 1

\* C17: when removeOldSessions has run on a record, the record holds at most
\* 40 sessions or none of its sessions is closed: a record of 42 sessions
\* with two closed ones is left with 40 sessions.
OldSessionsRetired ==
    last.op = "removeOldSessions"
        => \/ Len(rec.sessions) <= CLOSED_SESSIONS_MAX
           \/ \A i \in 1..Len(rec.sessions) : ~isClosed(rec.sessions[i])

\* C18: every getSessions() call returns the sessions sorted by
\* indexInfo.used in descending order, also after a decrypt has updated the
\* indexInfo.used of a session: decryptWhisperMessage tries the sessions
\* most recently used first.
SessionsMostRecentFirst ==
    last.op = "decryptWhisperMessage" => last.mru

\* The open session of the record the cipher of the last call holds.
openSessionOfLast ==
    sessionOf(cached[last.who][1], getOpenSession(cached[last.who][1])[1])

sessionKeys(held) ==
    IF held = None THEN {}
    ELSE {held[1].sessions[i].indexInfo.baseKey : i \in 1..Len(held[1].sessions)}

\* The pendingPreKey of the session under k in a record that holds it.
pendingOf(held, k) == sessionOf(held[1], k).pendingPreKey

\* C20: the pendingPreKey of a session is left as it is by every step, an
\* encrypt or a failed decrypt attempt included, but the step in which
\* doDecryptWhisperMessage succeeds on that session: after that step the
\* session has no pendingPreKey, in the record the cipher works on and in
\* the persisted record; a session without pendingPreKey stays without it,
\* so that every later encrypt on it returns type 1.
PendingPreKeyLifetime ==
    [][\A p \in Party :
         \A k \in sessionKeys(getRecord(p)) \cap sessionKeys(getRecord(p)') :
            IF isDecrypt' /\ last'.who = p /\ last'.session = k
            THEN /\ pendingOf(getRecord(p)', k) = None
                 /\ k \in sessionKeys(loadSession(store'[p], now'))
                 /\ pendingOf(loadSession(store'[p], now'), k) = None
            ELSE pendingOf(getRecord(p)', k) = pendingOf(getRecord(p), k)]_vars


---------------------------------------------------------------------------
(* One chain.  The cipher does three things to a chain: fillMessageKeys    *)
(* (from encrypt, doDecryptWhisperMessage and maybeStepRatchet), the       *)
(* removal of a message key that is used, and the removal of the chain key *)
(* by maybeStepRatchet.                                                    *)

chainVars == <<now, nextKey, preKeys, identity, store, cached, lastUpdate, idCache,
               sent, dstat, ordered, tampers, inits, last, calls, queues, rec, faults>>

\* The counters a caller asks fillMessageKeys for: behind the chain, at it,
\* one or two ahead, and further ahead than fillMessageKeys goes.
NearTargets(c) == {c - 1, c, c + 1, c + 2}
TooFar(c) == c + MAX_MESSAGE_KEYS + 1

FillMessageKeys(counter) ==
    /\ counter <= MaxCounter \/ counter = TooFar(oneChain.chainKey.counter)
    /\ oneChain' = fillMessageKeys(oneChain, counter).chain
    /\ call' = [op |-> "fillMessageKeys", chain |-> oneChain, counter |-> counter,
                err |-> fillMessageKeys(oneChain, counter).err, memo |-> call.memo]
    /\ UNCHANGED chainVars

\* delete chain.messageKeys[counter], in encrypt and doDecryptWhisperMessage
TakeMessageKey(counter) ==
    /\ counter \in DOMAIN oneChain.messageKeys
    /\ oneChain' = [oneChain EXCEPT !.messageKeys = MapDel(@, counter)]
    /\ call' = [op |-> "takeMessageKey", memo |-> call.memo]
    /\ UNCHANGED chainVars

\* delete previousRatchet.chainKey.key, in maybeStepRatchet
CloseChain ==
    /\ oneChain.chainKey.key # None
    /\ oneChain' = [oneChain EXCEPT !.chainKey.key = None]
    /\ call' = [op |-> "closeChain", memo |-> call.memo]
    /\ UNCHANGED chainVars

NextChain ==
    \/ \E counter \in NearTargets(oneChain.chainKey.counter)
                        \cup {TooFar(oneChain.chainKey.counter)} :
            FillMessageKeys(counter)
    \/ \E counter \in 0..MaxCounter : TakeMessageKey(counter)
    \/ CloseChain

SpecChain == Init /\ [][NextChain]_vars

---------------------------------------------------------------------------
(* HKDF *)

\* crypto.deriveSecrets with its argument checks (src/crypto.js): the salt is
\* a buffer of 32 bytes, `chunks || 3` replaces a chunks of 0 by 3, and the
\* assertion wants the result in 1..3.
cryptoChunks(chunks) == IF chunks = 0 THEN 3 ELSE chunks

cryptoDeriveSecrets(input, salt, info, chunks) ==
    IF Len(salt) # 32 THEN [err |-> "Error", out |-> << >>]
    ELSE IF ~(cryptoChunks(chunks) >= 1 /\ cryptoChunks(chunks) <= 3)
    THEN [err |-> "AssertionError", out |-> << >>]
    ELSE [err |-> "none",
          out |-> Array(deriveSecrets(input, salt, info, cryptoChunks(chunks)))]

\* CryptoEngine._generateCacheKey
macCacheKey(key, data) == <<"mac", key, data>>
deriveCacheKey(input, salt, info, chunks) == <<"derive", input, salt, info, chunks>>

\* CryptoEngine.calculateMAC on an engine whose _memoCache is `memo`: a call
\* with a key of 32 bytes and less than 1024 bytes of data answers from the
\* cache when it can and otherwise sets its result in the cache.
canMemoize(keyLength, dataLength) == keyLength = MAC /\ dataLength < 1024

engineCalculateMAC(memo, key, data, memoized) ==
    IF memoized /\ macCacheKey(key, data) \in DOMAIN memo
    THEN [out |-> memo[macCacheKey(key, data)], memo |-> memo]
    ELSE [out |-> calculateMAC(key, data),
          memo |-> IF memoized
                   THEN MapPut(memo, macCacheKey(key, data), calculateMAC(key, data))
                   ELSE memo]

\* The expand phase of CryptoEngine.deriveSecrets from chunk i on: each
\* chunk is a calculateMAC under PRK, a digest, of the chunk before it, the
\* info and the chunk's number.
RECURSIVE engineExpand(_, _, _, _, _, _)
engineExpand(memo, PRK, info, before, i, chunks) ==
    IF i > chunks THEN memo
    ELSE engineExpand(
             engineCalculateMAC(memo, PRK, before \o <<InfoCode(info), i>>,
                                canMemoize(MAC, Len(before) + 2)).memo,
             PRK, info,
             engineCalculateMAC(memo, PRK, before \o <<InfoCode(info), i>>,
                                canMemoize(MAC, Len(before) + 2)).out,
             i + 1, chunks)

\* The end of CryptoEngine.deriveSecrets: the result is set in the cache
\* when the cache holds fewer than _maxCacheSize entries.
engineCacheResult(memo, cacheKey, signed) ==
    IF Cardinality(DOMAIN memo) < maxCacheSize THEN MapPut(memo, cacheKey, signed)
    ELSE memo

\* CryptoEngine.deriveSecrets: the checks, then the memoized derivation if
\* there is one; otherwise the extract phase, a calculateMAC under the salt,
\* the expand phase, and the result set in the cache.
engineDeriveSecrets(memo, input, salt, info, chunks) ==
    IF Len(salt) # SALT THEN [err |-> "TypeError", out |-> << >>, memo |-> memo]
    ELSE IF chunks < 1 \/ chunks > MAX_HKDF_CHUNKS
    THEN [err |-> "Error", out |-> << >>, memo |-> memo]
    ELSE IF deriveCacheKey(input, salt, info, chunks) \in DOMAIN memo
    THEN [err |-> "none", out |-> memo[deriveCacheKey(input, salt, info, chunks)],
          memo |-> memo]
    ELSE [err |-> "none",
          out |-> Array(deriveSecrets(input, salt, info, chunks)),
          memo |-> engineCacheResult(
                       engineExpand(
                           engineCalculateMAC(memo, salt, input,
                                              canMemoize(Len(salt), Len(input))).memo,
                           engineCalculateMAC(memo, salt, input,
                                              canMemoize(Len(salt), Len(input))).out,
                           info, << >>, 1, chunks),
                       deriveCacheKey(input, salt, info, chunks),
                       Array(deriveSecrets(input, salt, info, chunks)))]

\* A salt of n bytes.
saltOf(n) == Array([i \in 1..n |-> 0])

\* deriveSecrets of src/crypto.js is called.
DeriveSecrets(input, salt, info, chunks) ==
    /\ call' = [op |-> "deriveSecrets", impl |-> "crypto", salt |-> salt,
                chunks |-> chunks,
                err |-> cryptoDeriveSecrets(input, salt, info, chunks).err,
                out |-> cryptoDeriveSecrets(input, salt, info, chunks).out,
                memo |-> call.memo]
    /\ UNCHANGED <<chainVars, oneChain>>

\* deriveSecrets of the CryptoEngine is called.
EngineDeriveSecrets(input, salt, info, chunks) ==
    /\ call' = [op |-> "deriveSecrets", impl |-> "CryptoEngine", salt |-> salt,
                chunks |-> chunks,
                err |-> engineDeriveSecrets(call.memo, input, salt, info, chunks).err,
                out |-> engineDeriveSecrets(call.memo, input, salt, info, chunks).out,
                memo |-> engineDeriveSecrets(call.memo, input, salt, info, chunks).memo]
    /\ UNCHANGED <<chainVars, oneChain>>

HkdfInputs == {<<Keys.fresh>>}
HkdfInfos == {"WhisperText"}

NextCrypto ==
    \/ \E input \in HkdfInputs, n \in 0..MaxSalt, info \in HkdfInfos,
          chunks \in -1..MaxChunks :
            DeriveSecrets(input, saltOf(n), info, chunks)
    \/ \E input \in HkdfInputs, n \in 0..MaxSalt, info \in HkdfInfos,
          chunks \in -1..MaxChunks :
            EngineDeriveSecrets(input, saltOf(n), info, chunks)

SpecCrypto == Init /\ [][NextCrypto]_vars

\* The key of a caller that authenticates one datum after the other, and
\* the data it has authenticated on the engine so far.
MacKeys == {Array([i \in 1..n |-> 1]) : n \in {MAC, MAC \div 2}}
macCalled(memo, key) == {k \in DOMAIN memo : k[1] = "mac" /\ k[2] = key}

\* calculateMAC of the CryptoEngine is called with the caller's next datum.
EngineCalculateMAC(key) ==
    /\ Cardinality(macCalled(call.memo, key)) < MaxMacCalls
    /\ call' = [op |-> "calculateMAC", impl |-> "CryptoEngine",
                out |-> engineCalculateMAC(call.memo, key,
                            <<Cardinality(macCalled(call.memo, key)) + 1>>,
                            canMemoize(Len(key), 1)).out,
                memo |-> engineCalculateMAC(call.memo, key,
                            <<Cardinality(macCalled(call.memo, key)) + 1>>,
                            canMemoize(Len(key), 1)).memo]
    /\ UNCHANGED <<chainVars, oneChain>>

\* getCacheStats of the CryptoEngine is called.
GetCacheStats ==
    /\ call' = [op |-> "getCacheStats", impl |-> "CryptoEngine",
                size |-> Cardinality(DOMAIN call.memo), maxSize |-> maxCacheSize,
                memo |-> call.memo]
    /\ UNCHANGED <<chainVars, oneChain>>

\* One CryptoEngine: calculateMAC, deriveSecrets with arguments that pass
\* its checks, getCacheStats.
NextMemo ==
    \/ \E key \in MacKeys : EngineCalculateMAC(key)
    \/ \E input \in HkdfInputs, info \in HkdfInfos, chunks \in 1..MAX_HKDF_CHUNKS :
          EngineDeriveSecrets(input, saltOf(SALT), info, chunks)
    \/ GetCacheStats

SpecMemo == Init /\ [][NextMemo]_vars

---------------------------------------------------------------------------
(* WhisperMessage frames *)

\* The buffer encrypt returns for a frame, as the parts written into it one
\* after the other: the version byte, the encoded message, mac.slice(0, 8).
encryptResult(frame) == << <<frame.version>>, frame.messageProto, frame.mac >>

\* WhisperMessage.validate
validMessage(message) == message.ciphertext # << >>

\* WhisperMessage.createWithMAC: the buffer it returns, as the parts written
\* into it: the encoded message and the whole of the MAC.
createWithMAC(message, ourIdentityKey, theirIdentityKey, macKey) ==
    IF ~validMessage(message) THEN [err |-> "Error", out |-> << >>]
    ELSE [err |-> "none",
          out |-> <<encodeWhisperMessage(message),
                    Slice(calculateMAC(macKey,
                                       macInputOf(ourIdentityKey, theirIdentityKey,
                                                  encodeTupleByte(VERSION, VERSION),
                                                  encodeWhisperMessage(message))),
                          MAC)>>]

\* new WhisperMessage(...).createWithMAC(...) is called.
CreateWithMAC(message, macKey) ==
    /\ call' = [op |-> "createWithMAC", message |-> message,
                err |-> createWithMAC(message, Keys.identityA, Keys.identityB, macKey).err,
                out |-> createWithMAC(message, Keys.identityA, Keys.identityB, macKey).out,
                memo |-> call.memo]
    /\ UNCHANGED <<chainVars, oneChain>>

\* The messages createWithMAC is called on.
WireMessages ==
    [ephemeralKey : {Keys.fresh, Keys.fresh + 1}, counter : 0..MaxCounter,
     previousCounter : 0..MaxCounter,
     ciphertext : {<< >>, encrypt(<<Keys.fresh>>, 1, Slice(<<Keys.fresh>>, 16))}]

\* One party encrypts on its session, and WhisperMessage objects are made
\* into buffers.
NextWire ==
    \/ \E k \in OneTimePreKeysB : inits = 0 /\ InitOutgoing(Some(k))
    \/ \E p \in Party, data \in Plaintexts : Encrypt(p, data, "none")
    \/ \E message \in WireMessages : CreateWithMAC(message, <<Keys.fresh>>)

SpecWire == Init /\ [][NextWire]_vars

---------------------------------------------------------------------------
(* The ratchet as a function of the sessions and frames that occur *)

\* The sessions of the record the cipher of p works on next.
heldSessions(p) ==
    IF getRecord(p) = None THEN {}
    ELSE {getRecord(p)[1].sessions[n] : n \in 1..Len(getRecord(p)[1].sessions)}

\* A previousCounter further ahead of every chain than fillMessageKeys goes.
FarAhead == MAX_MESSAGE_KEYS + MaxSent

\* The frames a cipher can be handed: the frames sent, each with the
\* previousCounter it was sent with, with the next one, or with one far ahead.
framesAround(i) ==
    {[sent[i].inner EXCEPT !.messageProto[3] = c] :
        c \in {sent[i].inner.messageProto[3], sent[i].inner.messageProto[3] + 1,
               FarAhead}}

\* What the claim of the DH ratchet trigger says of one call of
\* doDecryptWhisperMessage that returned `res`: no step when the ratchet key
\* of the message has a chain; otherwise a receiving chain under that key,
\* the prior receiving chain without its chain key, a fresh key pair of ours
\* with a sending chain at counter -1, and the key of the message as
\* lastRemoteEphemeralKey.
stepOutcome(session, message, newKey, res) ==
    LET old == session.currentRatchet.lastRemoteEphemeralKey
        eph == message.ephemeralKey
        after == res.session
    IN  IF hasChain(session, eph)
        THEN /\ ~res.stepped
             /\ after.currentRatchet = session.currentRatchet
             /\ DOMAIN after._chains = DOMAIN session._chains
        ELSE /\ res.stepped
             /\ hasChain(after, eph)
             /\ getChain(after, eph).chainType = ChainType.RECEIVING
             /\ hasChain(session, old)
                   => hasChain(after, old) /\ getChain(after, old).chainKey.key = None
             /\ after.currentRatchet.ephemeralKeyPair.pubKey = newKey
             /\ newKey # session.currentRatchet.ephemeralKeyPair.pubKey
             /\ hasChain(after, newKey)
             /\ getChain(after, newKey).chainType = ChainType.SENDING
             /\ getChain(after, newKey).chainKey.counter = -1
             /\ after.currentRatchet.lastRemoteEphemeralKey = eph

\* The prior receiving chain of the session cannot be filled up to the
\* previousCounter of the message.
priorChainUnfillable(session, message) ==
    LET old == session.currentRatchet.lastRemoteEphemeralKey IN
    /\ ~hasChain(session, message.ephemeralKey)
    /\ hasChain(session, old)
    /\ fillMessageKeys(getChain(session, old), message.previousCounter).err # "none"

\* C21 as stated: whenever doDecryptWhisperMessage processes a message whose
\* ratchet key has no chain in the session, the session afterwards has a
\* receiving chain under that key, the prior receiving chain has lost its
\* chain key, a fresh ephemeralKeyPair is installed with a sending chain at
\* counter -1, and lastRemoteEphemeralKey is the key of the message; a
\* message whose ratchet key has a chain causes no ratchet step.
RatchetTrigger ==
    \A p \in Party : \A session \in heldSessions(p) :
        \A i \in 1..Len(sent) : \A frame \in framesAround(i) :
            stepOutcome(session, decodeWhisperMessage(frame.messageProto), nextKey,
                        doDecryptWhisperMessage(frame, session, identity[p], nextKey))

\* doDecryptWhisperMessage returned `res` for a message that asks for a
\* ratchet step the prior chain does not allow: SessionError, session as it was.
stepRefused(session, res) ==
    res.err = "SessionError" /\ ~res.stepped /\ res.session = session

\* C21 as amended: the same, unless the prior receiving chain cannot be
\* filled up to the previousCounter of the message (it is more than 2000
\* ahead of the chain): then doDecryptWhisperMessage fails with SessionError
\* and the session is as it was, without the new chains.
RatchetTriggerUnlessUnfillable ==
    \A p \in Party : \A session \in heldSessions(p) :
        \A i \in 1..Len(sent) : \A frame \in framesAround(i) :
            IF priorChainUnfillable(session, decodeWhisperMessage(frame.messageProto))
            THEN stepRefused(session,
                             doDecryptWhisperMessage(frame, session, identity[p], nextKey))
            ELSE stepOutcome(session, decodeWhisperMessage(frame.messageProto), nextKey,
                             doDecryptWhisperMessage(frame, session, identity[p], nextKey))

\* A decrypt call succeeded on the only frame sent under its ratchet key and
\* left a session that has that key as lastRemoteEphemeralKey, a closed
\* receiving chain under another key and a sending chain at counter -1.
RatchetSteppedOverPriorChain ==
    /\ isDecrypt /\ last.err = "none" /\ last.session # 0
    /\ \A j \in 1..Len(sent) : j # last.idx => ephOf(j) # ephOf(last.idx)
    /\ LET after == decryptingSession IN
       /\ after.currentRatchet.lastRemoteEphemeralKey = ephOf(last.idx)
       /\ \E k \in DOMAIN after._chains :
             /\ k # ephOf(last.idx)
             /\ getChain(after, k).chainType = ChainType.RECEIVING
             /\ getChain(after, k).chainKey.key = None
       /\ getChain(after, after.currentRatchet.ephemeralKeyPair.pubKey).chainKey.counter = -1


\* What fillMessageKeys(before, counter) is to return, as `res`: nothing to
\* do at or behind the chain counter; SessionError and the chain as it was
\* when the counter is more than 2000 ahead or the chain key is erased;
\* otherwise the chain at `counter`, with one more message key for every
\* counter it stepped over and the keys it held before.
fillOutcome(before, counter, res) ==
    LET c == before.chainKey.counter IN
    IF c >= counter THEN res.err = "none" /\ res.chain = before
    ELSE IF counter - c > MAX_MESSAGE_KEYS \/ before.chainKey.key = None
    THEN res.err = "SessionError" /\ res.chain = before
    ELSE /\ res.err = "none"
         /\ res.chain.chainKey.counter = counter
         /\ res.chain.chainKey.key # None
         /\ DOMAIN res.chain.messageKeys = DOMAIN before.messageKeys \cup (c + 1)..counter
         /\ \A k \in DOMAIN before.messageKeys :
               res.chain.messageKeys[k] = before.messageKeys[k]

\* The counters fillMessageKeys is probed with: around the chain counter and
\* on both sides of the limit.
ProbeTargets(c) == NearTargets(c) \cup {c + MAX_MESSAGE_KEYS, TooFar(c)}

\* C22: fillMessageKeys(chain, target) returns without change when the chain
\* counter is at or past target; fails with SessionError, chain unchanged,
\* when target is more than 2000 ahead or when the chain key is erased and
\* target is ahead; otherwise it ends with counter = target and one more
\* message key for every counter in (old counter, target].
BoundedSkipAhead ==
    /\ \A counter \in ProbeTargets(oneChain.chainKey.counter) :
          fillOutcome(oneChain, counter, fillMessageKeys(oneChain, counter))
    /\ call.op = "fillMessageKeys"
          => fillOutcome(call.chain, call.counter, [chain |-> oneChain, err |-> call.err])

\* fillMessageKeys refused a counter more than 2000 ahead of a chain that
\* has stepped and holds a skipped key, and the chain is as it was.
FarSkipRefused ==
    /\ call.op = "fillMessageKeys" /\ call.err = "SessionError"
    /\ call.counter - call.chain.chainKey.counter > MAX_MESSAGE_KEYS
    /\ call.chain.chainKey.key # None
    /\ DOMAIN call.chain.messageKeys # {}
    /\ oneChain = call.chain

\* C23: a chain's messageKeys holds at most 2000 entries, whatever counters
\* fillMessageKeys is called with one after the other.
MessageKeysBounded ==
    \A counter \in ProbeTargets(oneChain.chainKey.counter) :
        Cardinality(DOMAIN fillMessageKeys(oneChain, counter).chain.messageKeys)
            <= MAX_MESSAGE_KEYS


\* The chain under ratchet key c of the session under k in a held record.
chainOf(held, k, c) == getChain(sessionOf(held[1], k), c)

\* The ratchet keys of the chains of the session under k in a held record.
chainKeysOf(held, k) == DOMAIN sessionOf(held[1], k)._chains

\* C24: the counter of a chain never decreases in the record a job works on
\* next, from one operation to the next, also when that record has been
\* stored and is loaded again, and a chain gains message keys only for the
\* counters it steps over.
CountersMonotone ==
    [][\A p \in Party :
         \A k \in sessionKeys(getRecord(p)) \cap sessionKeys(getRecord(p)') :
            \A c \in chainKeysOf(getRecord(p), k) \cap chainKeysOf(getRecord(p)', k) :
               /\ chainOf(getRecord(p)', k, c).chainKey.counter
                     >= chainOf(getRecord(p), k, c).chainKey.counter
               /\ \A idx \in DOMAIN chainOf(getRecord(p)', k, c).messageKeys
                                \ DOMAIN chainOf(getRecord(p), k, c).messageKeys :
                     /\ idx > chainOf(getRecord(p), k, c).chainKey.counter
                     /\ idx <= chainOf(getRecord(p)', k, c).chainKey.counter]_vars


\* The job of decryptPreKeyWhisperMessage for sent[i], a type 3 frame, with
\* `id` as the preKeyId initIncoming returns when it has built a session.
preKeyJobReturning(p, i, id, init) ==
    preKeyJobBuilt(p, sent[i].outer[1], sent[i].inner, getRecord(p) = None,
                   IF init.built THEN [init EXCEPT !.preKeyId = id] ELSE init,
                   "none")

\* The prekey ids initIncoming is taken to return for sent[i]: the one of
\* the frame, and the id 0.
returnedIds(i) == {sent[i].outer[1].preKeyId, Some(0)}

\* The job that ended as `res` after initIncoming returned `init` called
\* removePreKey for the id returned, after the inner frame was decrypted and
\* the record stored, and did not call it when the decrypt failed.
consumed(init, res) ==
    /\ res.err = "none" => res.stored /\ res.removed = init.preKeyId
    /\ res.err # "none" => res.removed = None

\* C25: decryptPreKeyWhisperMessage removes the one-time prekey from storage
\* for every preKeyId initIncoming returns, the id 0 included, and only once
\* the inner frame has been decrypted and the record stored; when the inner
\* decrypt fails removePreKey is not called.
PreKeyConsumed ==
    /\ \A i \in 1..Len(sent) : \A id \in (IF sent[i].outer = None THEN {}
                                          ELSE returnedIds(i)) :
          LET p == Peer(sent[i].from)
              record == IF getRecord(p) = None THEN newRecord(now) ELSE getRecord(p)[1]
              init == initIncoming(record, sent[i].outer[1], identity[p], preKeys,
                                   nextKey, now)
          IN consumed(IF init.built THEN [init EXCEPT !.preKeyId = id] ELSE init,
                      preKeyJobReturning(p, i, id, init))
    /\ (last.op = "decryptPreKeyWhisperMessage" /\ last.err = "none" /\ last.built
            /\ sent[last.idx].outer[1].preKeyId # None)
          => sent[last.idx].outer[1].preKeyId[1] \notin preKeys


\* C26: when decryptPreKeyWhisperMessage is given, unmodified, a type 3
\* frame it has decrypted before, the call fails with MessageCounterError,
\* and the record the next operation works on and the record in storage are
\* as they were before the call.
DuplicatePreKeyRejected ==
    (last.op = "decryptPreKeyWhisperMessage" /\ last.mode = "none" /\ last.was = "ok")
        => /\ last.err = "MessageCounterError"
           /\ last.recordSame
           /\ last.storageSame


---------------------------------------------------------------------------
(* Closing the open session *)

\* The record the next operation of party p works on has no open session.
noneOpen(held) == held # None /\ getOpenSession(held[1]) = None

closedIn(held, k) ==
    /\ k \in sessionKeys(held)
    /\ isClosed(sessionOf(held[1], k))

\* What closeOpenSession leaves: the session it closed is in the record,
\* closed, and the record has no open session.
closedAndKept ==
    (last.op = "closeOpenSession" /\ last.session # 0)
        => /\ closedIn(getRecord(last.who), last.session)
           /\ noneOpen(getRecord(last.who))

\* A party whose sessions are all closed is told it has no open session,
\* cannot encrypt, and its closed sessions stay in its record, closed.
closedStep(p) ==
    noneOpen(getRecord(p)) =>
        /\ (last'.op = "hasOpenSession" /\ last'.who = p) => ~last'.open
        /\ (last'.op = "encrypt" /\ last'.who = p) => last'.err = "SessionError"
        /\ \A k \in sessionKeys(getRecord(p)) :
              closedIn(getRecord(p), k) => closedIn(getRecord(p)', k)

\* A frame sent on the one session of its receiver, who has closed that
\* session since, has arrived.
onClosedSession ==
    /\ last.op = "decryptWhisperMessage" /\ last.mode = "none" /\ last.was = "new"
    /\ uniqueCoordinates(last.idx)
    /\ sessionKeys(getRecord(last.who)) # {}
    /\ noneOpen(getRecord(last.who))

\* C27: the session closeOpenSession closed stays in the record, closed; from
\* then on hasOpenSession returns false and encrypt fails with SessionError,
\* and decryptWhisperMessage of a frame sent on that session still returns
\* its plaintext.
ClosedSessionsRetained ==
    /\ [](closedAndKept /\ (onClosedSession => returnedPlaintext))
    /\ [][\A p \in Party : closedStep(p)]_vars


---------------------------------------------------------------------------
(* The argument checks of deriveSecrets *)

\* C28: deriveSecrets, of src/crypto.js and of the CryptoEngine alike, fails
\* when the salt is not 32 bytes long, fails for every chunks outside 1..3,
\* 0 and 4 included, and otherwise returns exactly `chunks` outputs.
HkdfArgumentChecks ==
    call.op = "deriveSecrets" =>
        IF Len(call.salt) # 32 \/ call.chunks \notin 1..3
        THEN call.err # "none"
        ELSE call.err = "none" /\ Len(call.out) = call.chunks

---------------------------------------------------------------------------
(* The shape of a WhisperMessage frame *)

\* Version byte, encoded message, 8 bytes of MAC: nine bytes more than the
\* encoded message.
truncatedShape(parts) ==
    /\ Len(parts) = 3
    /\ parts[1] = <<encodeTupleByte(VERSION, VERSION)>>
    /\ ByteLength(parts[3]) = 8
    /\ Len(parts[1]) + ByteLength(parts[3]) = 9

\* C29: every WhisperMessage frame a public operation produces with its MAC
\* attached is version byte || encoded message || first 8 bytes of the MAC;
\* none carries the whole MAC of 32 bytes.
WireFrameShape ==
    /\ \A i \in 1..Len(sent) : truncatedShape(encryptResult(sent[i].inner))
    /\ (call.op = "createWithMAC" /\ call.err = "none") => truncatedShape(call.out)


---------------------------------------------------------------------------
(* The bookkeeping of a receiving chain *)

\* The counters of the frames that party p has decrypted on the chain under
\* the ratchet key c of its peer.
receivedOn(p, c) ==
    {counterOf(i) : i \in {j \in 1..Len(sent) : /\ sent[j].from = Peer(p)
                                                 /\ dstat[j] = "ok"
                                                 /\ ephOf(j) = c}}

highest(counters) == CHOOSE n \in counters : \A other \in counters : other <= n

\* The chain has the counter of the highest frame received and holds the
\* message keys of the counters below it that have not been received.
bookkept(chain, received) ==
    /\ chain.chainKey.counter = highest(received)
    /\ DOMAIN chain.messageKeys = (0..chain.chainKey.counter) \ received

\* The receiving chains of party p that frames have been decrypted on and
\* that no ratchet step has closed: pairs of base key and ratchet key.
chainsInUse(p) ==
    {kc \in UNION {{<<k, c>> : c \in chainKeysOf(getRecord(p), k)} :
                     k \in sessionKeys(getRecord(p))} :
        /\ chainOf(getRecord(p), kc[1], kc[2]).chainType = ChainType.RECEIVING
        /\ chainOf(getRecord(p), kc[1], kc[2]).chainKey.key # None
        /\ receivedOn(p, kc[2]) # {}}

\* C30: after successful decrypts on a receiving chain, chainKey.counter is
\* the highest counter received and messageKeys holds exactly the counters
\* up to it that were skipped and not yet received; once all of 0..N have
\* been received, the counter is N and messageKeys is empty.
ReceivingChainBookkeeping ==
    \A p \in Party :
       \A kc \in chainsInUse(p) :
          bookkept(chainOf(getRecord(p), kc[1], kc[2]), receivedOn(p, kc[2]))


---------------------------------------------------------------------------
(* Frames of the ratchet epoch before the step *)

\* The frames the peer of p sent under the ratchet key c.
framesUnder(p, c) ==
    {j \in 1..Len(sent) : sent[j].from = Peer(p) /\ ephOf(j) = c}

\* A message that makes the session step its ratchet over a receiving chain
\* that can be filled up to the previousCounter of the message.
closesPriorChain(session, message) ==
    LET old == session.currentRatchet.lastRemoteEphemeralKey IN
    /\ ~hasChain(session, message.ephemeralKey)
    /\ hasChain(session, old)
    /\ getChain(session, old).chainType = ChainType.RECEIVING
    /\ getChain(session, old).chainKey.key # None
    /\ fillMessageKeys(getChain(session, old), message.previousCounter).err = "none"

\* What the counters the step fills are: those above the counter of the chain,
\* up to previousCounter.
stepsOver(chain, previousCounter) == (chain.chainKey.counter + 1)..previousCounter

\* A frame of the closed chain `after` is given to doDecryptWhisperMessage,
\* which returns res: the plaintext when the chain holds the key of its
\* counter and the frame is one of this session (`was` is what the call
\* would have returned before the step), SessionError when its counter is
\* above the counter of the chain.
lateFrame(j, after, was, res) ==
    IF counterOf(j) \in DOMAIN after.messageKeys /\ was.err = "none"
    THEN res.err = "none" /\ res.plaintext = sent[j].pt
    ELSE counterOf(j) > after.chainKey.counter => res.err = "SessionError"

\* What the step leaves of the prior chain `before`, filed under `old`, in
\* the session `stepped`: the chain without chain key, holding the keys it
\* held and those of the counters up to previousCounter; the frames of the
\* chain are decrypted accordingly.
priorEpoch(p, session, old, before, stepped, previousCounter) ==
    /\ getChain(stepped, old).chainKey.key = None
    /\ DOMAIN getChain(stepped, old).messageKeys
          = DOMAIN before.messageKeys \cup stepsOver(before, previousCounter)
    /\ \A j \in framesUnder(p, old) :
          lateFrame(j, getChain(stepped, old),
                    doDecryptWhisperMessage(sent[j].inner, session, identity[p], nextKey),
                    doDecryptWhisperMessage(sent[j].inner, stepped, identity[p],
                                            nextKey + 1))

\* C31: a ratchet step that closes the prior receiving chain derives and
\* keeps the message keys of all its counters up to the previousCounter of
\* the incoming message before it erases the chain key: a frame of that
\* chain with a counter up to previousCounter that has not been received
\* still decrypts, and a frame of that chain with a counter above the one of
\* the closed chain fails with SessionError.
PriorEpochKeysKept ==
    \A p \in Party : \A session \in heldSessions(p) :
        \A i \in 1..Len(sent) : \A frame \in framesAround(i) :
            closesPriorChain(session, decodeWhisperMessage(frame.messageProto))
              => priorEpoch(p, session, session.currentRatchet.lastRemoteEphemeralKey,
                    getChain(session, session.currentRatchet.lastRemoteEphemeralKey),
                    maybeStepRatchet(session, frame.messageProto[1],
                                     frame.messageProto[3], nextKey).session,
                    frame.messageProto[3])

\* The step fills a counter of the prior chain that a frame not yet received
\* was sent with, and that frame is decrypted on the closed chain.
lateDecrypted(p, old, before, stepped, previousCounter) ==
    \E j \in framesUnder(p, old) :
       /\ counterOf(j) \in stepsOver(before, previousCounter)
       /\ dstat[j] = "new"
       /\ doDecryptWhisperMessage(sent[j].inner, stepped, identity[p],
                                  nextKey + 1).err = "none"

LateFrameDecrypted ==
    \E p \in Party : \E session \in heldSessions(p) :
        \E i \in 1..Len(sent) : \E frame \in framesAround(i) :
            /\ closesPriorChain(session, decodeWhisperMessage(frame.messageProto))
            /\ lateDecrypted(p, session.currentRatchet.lastRemoteEphemeralKey,
                    getChain(session, session.currentRatchet.lastRemoteEphemeralKey),
                    maybeStepRatchet(session, frame.messageProto[1],
                                     frame.messageProto[3], nextKey).session,
                    frame.messageProto[3])


---------------------------------------------------------------------------
(* The sending side of a ratchet step *)

previousCounterOf(i) == decodeWhisperMessage(sent[i].inner.messageProto).previousCounter

\* The frame party p sent last before sent[j] (0: none).
sentBefore(p, j) ==
    IF \E i \in 1..(j - 1) : sent[i].from = p
    THEN CHOOSE i \in 1..(j - 1) :
            /\ sent[i].from = p
            /\ \A k \in (i + 1)..(j - 1) : sent[k].from # p
    ELSE 0

\* sent[j] follows sent[i] of the same party on the one session they have:
\* under the same ratchet key it has the same previousCounter, under a new
\* one it has counter 0 and the counter of sent[i] as previousCounter.
follows(i, j) ==
    IF ephOf(j) = ephOf(i)
    THEN previousCounterOf(j) = previousCounterOf(i)
    ELSE counterOf(j) = 0 /\ previousCounterOf(j) = counterOf(i)

\* The sending side of the step doDecryptWhisperMessage makes for a message:
\* previousCounter is the counter of the sending chain the session had,
\* and that chain is gone.
sendingSideStepped(session, stepped) ==
    LET ours == session.currentRatchet.ephemeralKeyPair.pubKey IN
    hasChain(session, ours)
        => /\ stepped.currentRatchet.previousCounter
                 = getChain(session, ours).chainKey.counter
           /\ ~hasChain(stepped, ours)

\* C32: a ratchet step sets currentRatchet.previousCounter to the counter of
\* the sending chain it replaces and deletes that chain; the first encrypt
\* after the step emits counter 0 under the new ratchet key with the last
\* counter sent on the replaced chain as previousCounter, and later encrypts
\* on the same chain keep that previousCounter.
SendingSideOfStep ==
    /\ \A p \in Party : \A session \in heldSessions(p) : \A i \in 1..Len(sent) :
          (~hasChain(session, ephOf(i))
              /\ maybeStepRatchet(session, ephOf(i), previousCounterOf(i), nextKey).stepped)
            => sendingSideStepped(session,
                  maybeStepRatchet(session, ephOf(i), previousCounterOf(i), nextKey).session)
    /\ \A j \in 1..Len(sent) :
          sentBefore(sent[j].from, j) # 0 => follows(sentBefore(sent[j].from, j), j)


---------------------------------------------------------------------------
(* The order of eviction *)

\* The sessions of a record, and the base keys of those removeOldSessions
\* takes out of `before` to leave `after`.
entriesOf(record) == {record.sessions[i] : i \in 1..Len(record.sessions)}
baseKeysOf(record) == {e.indexInfo.baseKey : e \in entriesOf(record)}
evicted(before, after) ==
    {e \in entriesOf(before) : e.indexInfo.baseKey \notin baseKeysOf(after)}

\* Only closed sessions are taken out, none of them closed later than a
\* closed session that is kept; what is kept is kept as it was; nothing is
\* taken out of a record without closed sessions.
evictedInOrder(before, after) ==
    /\ \A e \in evicted(before, after) :
          /\ isClosed(e)
          /\ \A k \in entriesOf(after) :
                isClosed(k) => e.indexInfo.closed <= k.indexInfo.closed
    /\ entriesOf(after) = entriesOf(before) \ evicted(before, after)
    /\ (\A e \in entriesOf(before) : ~isClosed(e)) => after.sessions = before.sessions

\* The times removeOldSessions is called at: now, and a cleanup interval later.
CleanupTimes == {now, now + CLEANUP_INTERVAL}

\* C33: removeOldSessions deletes only closed sessions, always the one with
\* the smallest indexInfo.closed of those that remain, never the open
\* session, and stops when no closed session is left, even if more than 40
\* sessions remain.
EvictionOrder ==
    \A t \in CleanupTimes : evictedInOrder(rec, removeOldSessions(rec, t))

\* removeOldSessions takes a closed session out of a record and leaves an
\* open session and a session closed later.
EvictedOldestOnly ==
    \E t \in CleanupTimes :
       /\ evicted(rec, removeOldSessions(rec, t)) # {}
       /\ \E k \in entriesOf(removeOldSessions(rec, t)) : ~isClosed(k)
       /\ \E k \in entriesOf(removeOldSessions(rec, t)) :
             /\ isClosed(k)
             /\ \A e \in evicted(rec, removeOldSessions(rec, t)) :
                   e.indexInfo.closed < k.indexInfo.closed


---------------------------------------------------------------------------
(* The chain step *)

\* The chain key `steps` steps after the chain key `key`: HMAC(., 0x02) each step.
RECURSIVE chainKeyAfter(_, _)
chainKeyAfter(key, steps) ==
    IF steps = 0 THEN key ELSE calculateMAC(chainKeyAfter(key, steps - 1), <<2>>)

\* The chain `after` is the chain `before` stepped as stated: its chain key
\* is the one of `before` after as many steps as the counter advanced, and
\* the message key seed of each counter n stepped over is HMAC(., 0x01) of
\* the chain key of counter n - 1.
steppedAsStated(before, after) ==
    /\ after.chainKey.counter >= before.chainKey.counter
    /\ after.chainKey.key
          = Some(chainKeyAfter(before.chainKey.key[1],
                               after.chainKey.counter - before.chainKey.counter))
    /\ \A n \in (before.chainKey.counter + 1)..after.chainKey.counter :
          /\ n \in DOMAIN after.messageKeys
          /\ after.messageKeys[n]
                = calculateMAC(chainKeyAfter(before.chainKey.key[1],
                                             n - before.chainKey.counter - 1), <<1>>)

\* The chains with a chain key in the sessions party p holds.
liveChains(p) ==
    UNION {{getChain(session, c) : c \in {k \in DOMAIN session._chains :
                                            getChain(session, k).chainKey.key # None}} :
             session \in heldSessions(p)}

\* The MAC of the frame sent[j] is the one made with the message key seed.
macMadeWith(j, seed, session, ourIdentity) ==
    verifyMAC(macInputOf(session.indexInfo.remoteIdentityKey, ourIdentity,
                         encodeTupleByte(VERSION, VERSION), sent[j].inner.messageProto),
              deriveSecrets(seed, zeros32, "WhisperMessageKeys", 3)[2],
              sent[j].inner.mac, MAC_LENGTH) = "none"

\* The session of the receiver q of sent[j], a frame that names its session,
\* has a chain with a chain key under the ratchet key of the frame, and the
\* counter of the frame is ahead of that chain.
aheadOfReceiver(j, q, session) ==
    /\ sent[j].outer # None
    /\ session.indexInfo.baseKey = sent[j].outer[1].baseKey
    /\ hasChain(session, ephOf(j))
    /\ getChain(session, ephOf(j)).chainKey.key # None
    /\ counterOf(j) > getChain(session, ephOf(j)).chainKey.counter

\* C34: the chain step in force, for encrypt and decrypt alike, derives the
\* message key seed of counter n+1 as HMAC(chainKey_n, 0x01) and the next
\* chain key as HMAC(chainKey_n, 0x02) and advances the counter by one; so
\* the receiver derives for a counter of a chain the seed the sender used.
ChainStepFormula ==
    /\ \A p \in Party : \A chain \in liveChains(p) :
          \A counter \in NearTargets(chain.chainKey.counter) :
             /\ fillMessageKeys(chain, counter).err = "none"
             /\ steppedAsStated(chain, fillMessageKeys(chain, counter).chain)
             /\ fillMessageKeys(chain, counter).chain.chainKey.counter
                   = IF counter > chain.chainKey.counter THEN counter
                     ELSE chain.chainKey.counter
    /\ \A j \in 1..Len(sent) : \A session \in heldSessions(Peer(sent[j].from)) :
          aheadOfReceiver(j, Peer(sent[j].from), session)
            => macMadeWith(j,
                  fillMessageKeys(getChain(session, ephOf(j)), counterOf(j))
                      .chain.messageKeys[counterOf(j)],
                  session, identity[Peer(sent[j].from)])

\* A receiver is a step behind a frame whose MAC was made with the seed the
\* receiver derives for it.
SeedAgreed ==
    \E j \in 1..Len(sent) : \E session \in heldSessions(Peer(sent[j].from)) :
       /\ aheadOfReceiver(j, Peer(sent[j].from), session)
       /\ counterOf(j) > 0
       /\ macMadeWith(j,
             fillMessageKeys(getChain(session, ephOf(j)), counterOf(j))
                 .chain.messageKeys[counterOf(j)],
             session, identity[Peer(sent[j].from)])


---------------------------------------------------------------------------
(* The record a job works on and the record in storage *)

\* The base keys of the sessions of the record in storage for party p.
storedSessions(p) == sessionKeys(loadSession(store[p], now))

\* The record the next job of p works on holds every session of the record
\* last stored for p.
storedRecordRead(p) == storedSessions(p) \subseteq sessionKeys(getRecord(p))

\* A step leaves in storage every session that was there: no record derived
\* from an older copy takes the place of the one stored last.
storedRecordKept(p) == storedSessions(p) \subseteq storedSessions(p)'

\* C35: every job run for an address works on the record most recently
\* stored for that address: when a SessionCipher and a SessionBuilder for
\* the same address alternate, a job never reads a record older than the one
\* stored last and never overwrites that one with state derived from an
\* older copy.
RecordFreshness ==
    /\ [](\A p \in Party : storedRecordRead(p))
    /\ [][\A p \in Party : storedRecordKept(p)]_vars


---------------------------------------------------------------------------
(* The chains of a session by type *)

\* The keys of the chains of the session that have the given type.
chainsOfType(session, type) ==
    {k \in DOMAIN session._chains : getChain(session, k).chainType = type}

\* The session has exactly one sending chain, it is filed under the public
\* key of our current ratchet key pair, and it holds no message key.
oneSendingChain(session) ==
    /\ chainsOfType(session, ChainType.SENDING)
         = {session.currentRatchet.ephemeralKeyPair.pubKey}
    /\ DOMAIN getChain(session, session.currentRatchet.ephemeralKeyPair.pubKey).messageKeys = {}

\* C36: in every reachable state every session has exactly one chain of
\* type SENDING, filed under currentRatchet.ephemeralKeyPair.pubKey, with an
\* empty messageKeys map between operations; so the chain encrypt selects is
\* not a RECEIVING chain, and the chain doDecryptWhisperMessage selects for a
\* frame the peer produced is not a SENDING chain.
OneSendingChain ==
    \A p \in Party : \A session \in heldSessions(p) :
        /\ oneSendingChain(session)
        /\ \A j \in 1..Len(sent) :
              (sent[j].from = Peer(p) /\ hasChain(session, ephOf(j)))
                  => getChain(session, ephOf(j)).chainType = ChainType.RECEIVING

\* A session that has stepped its ratchet on a frame of the peer, has
\* decrypted that frame and has encrypted on the sending chain of the step.
SendingChainAfterStep ==
    \E p \in Party : \E session \in heldSessions(p) :
        /\ oneSendingChain(session)
        /\ getChain(session, session.currentRatchet.ephemeralKeyPair.pubKey).chainKey.counter >= 0
        /\ \E j \in 1..Len(sent) :
              /\ sent[j].from = Peer(p) /\ dstat[j] = "ok" /\ sent[j].outer = None
              /\ hasChain(session, ephOf(j))
              /\ getChain(session, ephOf(j)).chainType = ChainType.RECEIVING


\* The keys of the receiving chains of the session that still have a chain key.
liveReceiving(session) ==
    {k \in chainsOfType(session, ChainType.RECEIVING) :
        getChain(session, k).chainKey.key # None}

\* C37: in every reachable state of a session that started with at most one
\* receiving chain, at most one chain of type RECEIVING still has a chain
\* key, namely the chain under currentRatchet.lastRemoteEphemeralKey; every
\* older receiving chain has its chain key erased.
OneLiveReceivingChain ==
    \A p \in Party : \A session \in heldSessions(p) :
        liveReceiving(session) \subseteq {session.currentRatchet.lastRemoteEphemeralKey}

\* A session that has stepped its ratchet twice on frames it decrypted: it
\* holds an older receiving chain with its chain key erased and a live one
\* under the last remote ratchet key.
OlderChainErased ==
    \E p \in Party : \E session \in heldSessions(p) :
        /\ liveReceiving(session) = {session.currentRatchet.lastRemoteEphemeralKey}
        /\ \E k \in chainsOfType(session, ChainType.RECEIVING) :
              /\ getChain(session, k).chainKey.key = None
              /\ \E j \in 1..Len(sent) : sent[j].from = Peer(p) /\ dstat[j] = "ok" /\ ephOf(j) = k
        /\ \E j \in 1..Len(sent) :
              /\ sent[j].from = Peer(p) /\ dstat[j] = "ok"
              /\ ephOf(j) = session.currentRatchet.lastRemoteEphemeralKey


---------------------------------------------------------------------------
(* haveOpenSession *)

\* The record holds a session that is not closed and whose registrationId
\* is a number.
openAndNumbered(record) ==
    \E i \in 1..Len(record.sessions) :
        /\ ~isClosed(record.sessions[i])
        /\ isNumber(record.sessions[i].registrationId)

\* C38: two consecutive calls of SessionRecord.haveOpenSession() with no
\* mutation of the record in between return the same value, and that value
\* is true exactly when the record holds a session with indexInfo.closed = -1
\* whose registrationId is a number.
HaveOpenSessionDeterministic ==
    /\ haveOpenSession(afterHaveOpenSession(rec)) = haveOpenSession(rec)
    /\ haveOpenSession(rec) = openAndNumbered(rec)


---------------------------------------------------------------------------
(* The memo cache of the CryptoEngine *)

\* C39: after any sequence of CryptoEngine.calculateMAC and
\* CryptoEngine.deriveSecrets calls the memo cache of the engine holds at
\* most _maxCacheSize (100) entries, and getCacheStats() reports a size that
\* is at most maxSize.
MemoBounded ==
    /\ Cardinality(DOMAIN call.memo) <= maxCacheSize
    /\ call.op = "getCacheStats" => call.size <= call.maxSize

====
